---- MODULE Spec2Model ----
(***************************************************************************)
(* Fragment runtime of the backend: the hash-join operator                 *)
(* (be/src/exec/hash_join_node.cpp), the shuffle exchange sender           *)
(* (be/src/runtime/data_stream_sender.cpp), the pipeline fragment executor,*)
(* the aggregation hash sets and the aggregate function resolver,          *)
(* modelled as state machines.                                             *)
(*                                                                         *)
(* SpecJoin   : one HashJoinNode, open() followed by get_next() calls.     *)
(* SpecPush   : two HashJoinNodes on the same inputs, one with             *)
(*              is_push_down set and one without.                          *)
(* SpecSender : one DataStreamSender with its channels.                    *)
(* SpecCodec  : a vectorized DataStreamSender with a compression codec.    *)
(* SpecIndex  : the row index computation of a hash-partitioned send_chunk.*)
(* SpecSerialize : serialize_chunk on one chunk.                           *)
(* SpecRange  : a row-path DataStreamSender with range partitioning.       *)
(* SpecFragment : FragmentExecutor::prepare and execute on one fragment.   *)
(* SpecHashSet : the build_set calls of the aggregation hash sets.         *)
(* SpecRegistry : the aggregate function resolver and its lookups.         *)
(* SpecOpen   : HashJoinNode::open with its build task, cancellation and   *)
(*              the get_next calls that follow.                            *)
(* SpecPushDown : the push down decision of HashJoinNode::open.            *)
(* SpecLimit  : one HashJoinNode with a row limit.                         *)
(* SpecSliceSet : the build_set calls of the string and serialized-key     *)
(*              hash sets, with the arena and the scratch buffer.          *)
(* SpecInsertKeys : insert_keys_to_columns of the nullable one-key sets.   *)
(***************************************************************************)
EXTENDS Integers, Sequences, FiniteSets, TLC

VARIABLES
    jc,        \* the plan of the join: join_op, keys, conjuncts, inputs
    hj,        \* the HashJoinNode's fields
    hj2,       \* a second HashJoinNode on the same inputs (SpecPush only)
    sc,        \* the sink plan of the sender: mode, partition type, destinations
    ds,        \* the DataStreamSender and its channels
    fx         \* one call of a function on its own: its arguments and results

vars == <<jc, hj, hj2, sc, ds, fx>>

\* ------------------------------------------------------------------ bounds
MaxBuild == 2      \* rows of the build (right) child
MaxProbe == 2      \* rows of the probe (left) child
MaxBatch == 2      \* state->batch_size(): capacity of probe and output batches

NULL == 0

\* ------------------------------------------------------------ join: inputs
JoinOps == {"INNER", "LEFT_OUTER", "RIGHT_OUTER", "FULL_OUTER",
            "LEFT_SEMI", "RIGHT_SEMI", "LEFT_ANTI", "RIGHT_ANTI"}

\* A row of a child: one key column k (NULL or a value) and one payload v.
\* The probe side also holds a key value that no build row has.
PayVals == {0, 1}
BuildRows == [k : {NULL, 1}, v : PayVals]
ProbeRows == [k : {NULL, 1, 2}, v : PayVals]

SeqsUpTo(S, n) == UNION {[1..m -> S] : m \in 0..n}

\* other_join_conjuncts: none, or one predicate over both sides.
OtherKinds == {"none", "pv_le_bv"}
\* conjuncts: none, or a predicate on a build column, or on a probe column.
ConjKinds(op) ==
    CASE op \in {"LEFT_SEMI", "LEFT_ANTI"}   -> {"none", "pv"}
      [] op \in {"RIGHT_SEMI", "RIGHT_ANTI"} -> {"none", "bv"}
      [] OTHER                               -> {"none", "bv", "pv"}

\* HashJoinNode::HashJoinNode
match_all_probe(c) == c.join_op \in {"LEFT_OUTER", "FULL_OUTER"}
match_one_build(c) == c.join_op = "LEFT_SEMI"
match_all_build(c) == c.join_op \in {"RIGHT_OUTER", "FULL_OUTER"}
\* HashJoinNode::init: deduplicated build side for semi/anti without other conjuncts
build_unique(c) == c.join_op \in {"LEFT_ANTI", "LEFT_SEMI"} /\ c.other = "none"
\* HashJoinNode::prepare
stores_nulls(c) ==
    c.join_op \in {"RIGHT_OUTER", "FULL_OUTER", "RIGHT_ANTI", "RIGHT_SEMI"} \/ c.null_safe

\* one equi-join key column compared under its null-safety flag
KeyEq(c, pk, bk) ==
    IF pk = NULL \/ bk = NULL THEN c.null_safe /\ pk = NULL /\ bk = NULL ELSE pk = bk

\* eval_conjuncts(other_conjunct_ctxs, ...) on concat(probe row p, build row b)
OtherPass(c, p, b) ==
    c.other = "none" \/ c.probe[p].v <= c.build[b].v

\* eval_conjuncts(conjunct_ctxs, ...) on an output row; a side that is NULL
\* (index 0) makes a predicate on it evaluate to NULL, which filters the row
ConjPass(c, p, b) ==
    CASE c.conj = "none" -> TRUE
      [] c.conj = "bv"   -> b # 0 /\ c.build[b].v = 1
      [] c.conj = "pv"   -> p # 0 /\ c.probe[p].v = 1


\* ------------------------------------------------------- join: hash table
\* The table is the sequence of stored build rows (indexes into c.build) in
\* the order an iterator from begin() visits them.

\* HashTable::insert / emplace_key as used by process_build_batch: a row with a
\* NULL key is stored only if the table stores nulls; with _build_unique a row
\* whose key is already present is not stored again
TableInsert(c, tbl, b) ==
    IF ~stores_nulls(c) /\ c.build[b].k = NULL THEN tbl
    ELSE IF build_unique(c) /\ \E i \in 1..Len(tbl) : c.build[tbl[i]].k = c.build[b].k THEN tbl
    ELSE Append(tbl, b)

RECURSIVE InsertAll(_, _, _)
InsertAll(c, tbl, i) ==
    IF i > Len(c.build) THEN tbl ELSE InsertAll(c, TableInsert(c, tbl, i), i + 1)

\* HashJoinNode::construct_hash_table: drain child(1), insert every row
construct_hash_table(c) == InsertAll(c, <<>>, 1)

\* HashTable::find(probe_row): the iterator over the stored rows whose key
\* equals the probe key under the null-safety flag
TableFind(c, tbl, p) == SelectSeq(tbl, LAMBDA b : KeyEq(c, c.probe[p].k, c.build[b].k))

\* ------------------------------------------------------ join: probe child
Min(a, b) == IF a < b THEN a ELSE b

RECURSIVE SeqFilter(_, _)
SeqFilter(s, S) ==
    IF s = <<>> THEN <<>>
    ELSE IF Head(s) \in S THEN <<Head(s)>> \o SeqFilter(Tail(s), S)
    ELSE SeqFilter(Tail(s), S)

\* the values inserted into the IN-predicate of the probe key (open, the loop
\* over the hash table); a NULL build value is never equal to anything
InSet(c, tbl) == {c.build[tbl[i]].k : i \in 1..Len(tbl)} \ {NULL}

\* push_down_predicate: the probe subtree returns only the rows whose key is
\* in the IN-predicate
PushDownFilter(c, tbl) ==
    SeqFilter([i \in 1..Len(c.probe) |-> i], {p \in 1..Len(c.probe) : c.probe[p].k \in InSet(c, tbl)})

\* child(0)->get_next(state, _probe_batch, &_probe_eos): up to batch_size rows;
\* the child reports eos with its last rows, or (late) with a following empty batch
ChildGetNext(c, m, late) ==
    LET n    == Min(c.batch, Len(m.child_rest))
        rest == SubSeq(m.child_rest, n + 1, Len(m.child_rest))
    IN [m EXCEPT !.probe_batch = SubSeq(m.child_rest, 1, n),
                 !.child_rest = rest,
                 !.probe_eos = (rest = <<>>) /\ (~late \/ n = 0),
                 !.fetches = @ + 1]

\* --------------------------------------------------------- join: the node
PushDownMaxRows == 1024

NewNode ==
    [phase |-> "new", tbl |-> <<>>, eos |-> FALSE, probe_eos |-> FALSE,
     probe_batch |-> <<>>, pos |-> 0, cur |-> 0, matched_probe |-> FALSE,
     iter |-> <<>>, matched |-> {}, joined |-> {}, returned |-> 0,
     anti_last |-> FALSE, child_rest |-> <<>>, pushed |-> FALSE, fetches |-> 0,
     out |-> <<>>, o |-> 0, reof |-> FALSE, pc |-> "ret",
     set_matched_calls |-> <<>>, conj_on_matched |-> FALSE]

\* open(): the conditions under which the requested push down stays enabled
PushDownAllowed(c, pd) ==
    /\ pd
    /\ ~(c.child0_exchange /\ c.child1_exchange)
    /\ ~c.null_safe
    /\ ~c.vec_scan

\* open(): whether the IN-predicates are built and pushed to the probe subtree
PushDownDoneAt(c, pd, size) ==
    /\ PushDownAllowed(c, pd)
    /\ (size <= PushDownMaxRows \/ c.build_child_conjuncts # 0)

PushDownDone(c, pd, tbl) == PushDownDoneAt(c, pd, Len(tbl))

\* open(): the seeding loop over child(0)->get_next at the end of open
RECURSIVE SeedProbe(_, _, _)
SeedProbe(c, m, late) ==
    LET m1 == [ChildGetNext(c, m, late) EXCEPT !.pos = 0]
    IN IF m1.probe_batch = <<>>
       THEN IF m1.probe_eos
            THEN [m1 EXCEPT !.iter = m1.tbl, !.eos = TRUE]
            ELSE SeedProbe(c, m1, late)
       ELSE [m1 EXCEPT !.cur = m1.probe_batch[1], !.pos = 1,
                       !.matched_probe = FALSE,
                       !.iter = TableFind(c, m1.tbl, m1.probe_batch[1])]

\* HashJoinNode::open
OpenOp(c, n, pd, late) ==
    LET tbl == construct_hash_table(c)
        m0  == [n EXCEPT !.phase = "open", !.tbl = tbl,
                         !.child_rest = [i \in 1..Len(c.probe) |-> i]]
    IN IF PushDownAllowed(c, pd) /\ Len(tbl) = 0 /\ c.join_op = "INNER"
       THEN [m0 EXCEPT !.pos = 0, !.iter = tbl, !.eos = TRUE]
       ELSE IF PushDownDone(c, pd, tbl)
       THEN SeedProbe(c, [m0 EXCEPT !.pushed = TRUE, !.child_rest = PushDownFilter(c, tbl)], late)
       ELSE SeedProbe(c, m0, late)

\* -------------------------------------------------- join: get_next helpers
\* a limit test that lets one more row through
reached_limit_above(c, m) == c.limit # -1 /\ m.returned > c.limit

\* ExecNode::reached_limit
reached_limit(c, m) == c.limit # -1 /\ m.returned >= c.limit
\* out_batch->is_full()
is_full(c, m) == m.o >= c.batch

\* out_batch->commit_last_row(); ++_num_rows_returned
CommitRow(m, p, b) ==
    [m EXCEPT !.out = Append(@, <<p, b>>), !.o = @ + 1, !.returned = @ + 1]

Return(m, eos) == [m EXCEPT !.pc = "ret", !.reof = eos]

\* a probe loop that never skips a build row
SkipMatchedNever(c, m, b) == FALSE

\* get_next, the probe loop: a build row already marked matched is skipped
\* by RIGHT_ANTI and RIGHT_SEMI before any conjunct is evaluated
SkipMatched(c, m, b) ==
    c.join_op \in {"RIGHT_ANTI", "RIGHT_SEMI"} /\ b \in m.matched

\* get_next, the probe loop: the rows on which set_matched is called
SetsMatched(c, p, b) ==
    c.join_op \in {"RIGHT_ANTI", "RIGHT_SEMI"} /\ OtherPass(c, p, b)

\* get_next, the probe loop: the build row is remembered in _joined_build_rows
RemembersJoined(c, p, b) == match_all_build(c) /\ OtherPass(c, p, b)

\* a final scan that consults the matched bits for every join variant
ScanSkipsMatchedBits(c, m, b) == b \in m.matched

\* get_next, the final scan: a build row that is not emitted as (NULL, build)
ScanSkips(c, m, b) ==
    IF match_all_build(c) THEN b \in m.joined
    ELSE c.join_op = "RIGHT_ANTI" /\ b \in m.matched

\* get_next: one iteration of  while (_hash_tbl_iterator.has_next())
ChainStep(c, m) ==
    LET b   == Head(m.iter)
        p   == m.cur
        nxt == [m EXCEPT !.iter = Tail(@)]
        adv == [nxt EXCEPT !.conj_on_matched = @ \/ b \in m.matched]
    IN IF SkipMatched(c, m, b) THEN nxt
       ELSE IF c.join_op = "RIGHT_ANTI"
       THEN [adv EXCEPT !.matched = IF SetsMatched(c, p, b) THEN @ \cup {b} ELSE @,
                        !.set_matched_calls = IF SetsMatched(c, p, b) THEN Append(@, b) ELSE @]
       ELSE IF ~OtherPass(c, p, b) THEN adv
       ELSE LET m1 == [adv EXCEPT
                         !.matched = IF SetsMatched(c, p, b) THEN @ \cup {b} ELSE @,
                         !.set_matched_calls = IF SetsMatched(c, p, b) THEN Append(@, b) ELSE @,
                         !.matched_probe = TRUE,
                         !.joined = IF RemembersJoined(c, p, b) THEN @ \cup {b} ELSE @]
            IN IF ConjPass(c, p, b)
               THEN LET m2 == CommitRow(m1, p, b)
                    IN IF is_full(c, m2) \/ reached_limit(c, m2)
                       THEN Return(m2, reached_limit(c, m2))
                       ELSE m2
               ELSE m1

\* get_next: the (probe, NULL) row of LEFT_OUTER / FULL_OUTER after the chain
AfterChain(c, m) ==
    IF match_all_probe(c) /\ ~m.matched_probe /\ ConjPass(c, m.cur, 0)
    THEN LET m2 == [CommitRow(m, m.cur, 0) EXCEPT !.matched_probe = TRUE]
         IN IF is_full(c, m2) \/ reached_limit(c, m2)
            THEN Return(m2, reached_limit(c, m2))
            ELSE [m2 EXCEPT !.pc = "batch"]
    ELSE [m EXCEPT !.pc = "batch"]

\* get_next:  finish up right outer join  (after the probe input is drained)
PostFetch(c, m) ==
    IF m.eos /\ (match_all_build(c) \/ c.join_op = "RIGHT_ANTI")
    THEN [m EXCEPT !.iter = m.tbl, !.pc = "row"]
    ELSE [m EXCEPT !.pc = "row"]

\* get_next:  if (_probe_batch_pos == _probe_batch->num_rows())  up to the fetch
\* loop; lim is out_batch->at_resource_limit() after the transfer of a probe
\* batch that held rows
BatchEnd(c, m, lim) ==
    IF m.pos = Len(m.probe_batch)
    THEN LET held == m.probe_batch # <<>>
             m1   == [m EXCEPT !.probe_batch = <<>>, !.pos = 0]
         IN IF is_full(c, m1) \/ (lim /\ held) THEN Return(m1, FALSE)
            ELSE IF ~m1.probe_eos THEN [m1 EXCEPT !.pc = "fetch"]
            ELSE PostFetch(c, [m1 EXCEPT !.eos = TRUE])
    ELSE [m EXCEPT !.pc = "row"]

\* get_next:  get new probe batch  (one iteration of the inner while (true))
Fetch(c, m, late) ==
    LET m1 == ChildGetNext(c, m, late)
    IN IF m1.probe_batch = <<>>
       THEN IF m1.probe_eos THEN PostFetch(c, [m1 EXCEPT !.eos = TRUE])
            ELSE IF is_full(c, m1) THEN Return(m1, FALSE)
            ELSE m1
       ELSE PostFetch(c, m1)

\* get_next:  join remaining rows in probe _batch
NextRow(c, m) ==
    IF m.eos THEN [m EXCEPT !.pc = "final"]
    ELSE LET p == m.probe_batch[m.pos + 1]
         IN [m EXCEPT !.cur = p, !.pos = @ + 1, !.matched_probe = FALSE,
                      !.iter = TableFind(c, m.tbl, p), !.pc = "chain"]

\* a final scan that starts over from the first bucket on every call
FinalStartFromBegin(c, m) ==
    IF match_all_build(c) \/ c.join_op = "RIGHT_ANTI"
    THEN IF c.join_op = "RIGHT_ANTI"
         THEN [m EXCEPT !.iter = m.tbl, !.pc = "scan"]
         ELSE [m EXCEPT !.pc = "scan"]
    ELSE Return(m, TRUE)

\* get_next: after the probe loop, where the final scan starts or resumes;
\* _anti_join_last_pos points to _hash_tbl_iterator itself, so the assignment
\* from it leaves the iterator as it is
FinalStart(c, m) ==
    IF match_all_build(c) \/ c.join_op = "RIGHT_ANTI"
    THEN IF c.join_op = "RIGHT_ANTI" /\ ~m.anti_last
         THEN [m EXCEPT !.iter = m.tbl, !.pc = "scan"]
         ELSE [m EXCEPT !.pc = "scan"]
    ELSE Return(m, TRUE)

\* get_next:  output remaining unmatched build rows  (one loop iteration, or
\* the end of the loop)
ScanStep(c, m) ==
    IF ~is_full(c, m) /\ m.iter # <<>>
    THEN LET b == Head(m.iter)
         IN IF ScanSkips(c, m, b) THEN [m EXCEPT !.iter = Tail(@)]
            ELSE IF ConjPass(c, 0, b)
            THEN LET m2 == CommitRow(m, 0, b)
                 IN IF reached_limit(c, m2) THEN Return(m2, TRUE)
                    ELSE [m2 EXCEPT !.iter = Tail(@)]
            ELSE [m EXCEPT !.iter = Tail(@)]
    ELSE Return([m EXCEPT !.anti_last = @ \/ c.join_op = "RIGHT_ANTI"], m.iter = <<>>)

\* get_next, the general path (RIGHT_*, FULL_OUTER), from one code point to the next
GeneralStep(c, m, late, lim) ==
    CASE m.pc = "loop"  -> IF m.eos THEN [m EXCEPT !.pc = "final"] ELSE [m EXCEPT !.pc = "chain"]
      [] m.pc = "chain" -> IF m.iter # <<>> THEN ChainStep(c, m) ELSE AfterChain(c, m)
      [] m.pc = "batch" -> BatchEnd(c, m, lim)
      [] m.pc = "fetch" -> Fetch(c, m, late)
      [] m.pc = "row"   -> NextRow(c, m)
      [] m.pc = "final" -> FinalStart(c, m)
      [] m.pc = "scan"  -> ScanStep(c, m)

RECURSIVE GeneralRun(_, _, _, _)
GeneralRun(c, m, late, lim) ==
    IF m.pc = "ret" THEN m ELSE GeneralRun(c, GeneralStep(c, m, late, lim), late, lim)

\* ------------------------------------------------- join: the fast path
\* HashJoinNode::process_probe_batch(out_batch, probe_batch, max_added_rows):
\* the tight loop of INNER, LEFT_OUTER, LEFT_SEMI and LEFT_ANTI. stop is the
\* number of rows in out_batch at which max_added_rows rows have been added.
\* ppc: "chain" the walk over the matching build rows, "outer" the handling
\* of a probe row without a match, "adv" the advance to the next probe row.
RECURSIVE ProbeBatchRun(_, _, _, _)
ProbeBatchRun(c, m, stop, ppc) ==
    LET endm == IF match_one_build(c) /\ m.matched_probe THEN [m EXCEPT !.iter = <<>>] ELSE m
    IN CASE ppc = "end" -> endm
         [] ppc = "chain" ->
              IF m.iter = <<>> THEN ProbeBatchRun(c, m, stop, "outer")
              ELSE LET b   == Head(m.iter)
                       adv == [m EXCEPT !.iter = Tail(@)]
                   IN IF ~OtherPass(c, m.cur, b) THEN ProbeBatchRun(c, adv, stop, "chain")
                      ELSE LET m1 == [adv EXCEPT !.matched_probe = TRUE]
                           IN IF c.join_op = "LEFT_ANTI"
                              THEN ProbeBatchRun(c, [m1 EXCEPT !.iter = <<>>], stop, "outer")
                              ELSE LET m2 == IF ConjPass(c, m.cur, b) THEN CommitRow(m1, m.cur, b) ELSE m1
                                   IN IF m2.o # m1.o /\ m2.o = stop
                                      THEN ProbeBatchRun(c, m2, stop, "end")
                                      ELSE IF match_one_build(c)
                                      THEN ProbeBatchRun(c, [m2 EXCEPT !.iter = <<>>], stop, "outer")
                                      ELSE ProbeBatchRun(c, m2, stop, "chain")
         [] ppc = "outer" ->
              IF ~m.matched_probe /\ (match_all_probe(c) \/ c.join_op = "LEFT_ANTI")
              THEN LET m1 == [m EXCEPT !.matched_probe = TRUE]
                       m2 == IF ConjPass(c, m.cur, 0) THEN CommitRow(m1, m.cur, 0) ELSE m1
                   IN IF m2.o # m1.o /\ m2.o = stop
                      THEN ProbeBatchRun(c, m2, stop, "end")
                      ELSE ProbeBatchRun(c, m2, stop, "adv")
              ELSE ProbeBatchRun(c, m, stop, "adv")
         [] ppc = "adv" ->
              IF m.iter = <<>>
              THEN IF m.pos = Len(m.probe_batch) THEN ProbeBatchRun(c, m, stop, "end")
                   ELSE LET p == m.probe_batch[m.pos + 1]
                        IN ProbeBatchRun(c, [m EXCEPT !.cur = p, !.pos = @ + 1,
                                                      !.iter = TableFind(c, m.tbl, p),
                                                      !.matched_probe = FALSE],
                                         stop, "chain")
              ELSE ProbeBatchRun(c, m, stop, "chain")

process_probe_batch(c, m, max_added_rows) ==
    ProbeBatchRun(c, m, m.o + max_added_rows, "chain")

\* HashJoinNode::left_join_get_next: one iteration of  while (!_eos)
LeftStep(c, m, late, lim) ==
    LET room == c.batch - m.o
        max  == IF c.limit # -1 THEN Min(room, c.limit - m.returned) ELSE room
        m1   == process_probe_batch(c, m, max)
    IN IF reached_limit(c, m1) \/ is_full(c, m1) THEN Return(m1, reached_limit(c, m1))
       ELSE IF m1.iter = <<>> /\ m1.pos = Len(m1.probe_batch)
       THEN LET held == m1.probe_batch # <<>>
                m2   == [m1 EXCEPT !.probe_batch = <<>>, !.pos = 0]
            IN IF is_full(c, m2) \/ (lim /\ held) THEN Return(m2, m.reof)
               ELSE IF m2.probe_eos THEN Return([m2 EXCEPT !.eos = TRUE], TRUE)
               ELSE ChildGetNext(c, m2, late)
       ELSE m1

RECURSIVE LeftRun(_, _, _, _)
LeftRun(c, m, late, lim) ==
    IF m.pc = "ret" THEN m ELSE LeftRun(c, LeftStep(c, m, late, lim), late, lim)

\* HashJoinNode::left_join_get_next
left_join_get_next(c, m, late, lim) ==
    LeftRun(c, [m EXCEPT !.reof = m.eos], late, lim)

\* the joins served by left_join_get_next
FastPath(c) ==
    ~(match_all_build(c) \/ c.join_op \in {"RIGHT_SEMI", "RIGHT_ANTI"})

\* HashJoinNode::get_next: one call with a fresh out_batch
GetNextOp(c, n, late, lim) ==
    LET m == [n EXCEPT !.o = 0, !.pc = "loop", !.reof = FALSE]
    IN IF reached_limit(c, m) THEN Return(m, TRUE)
       ELSE IF FastPath(c)
       THEN IF m.eos THEN Return(m, TRUE) ELSE left_join_get_next(c, m, late, lim)
       ELSE GeneralRun(c, m, late, lim)

\* ------------------------------------------------------ join: state machine
NoSender == [phase |-> "none"]
NoJoin == [join_op |-> "none"]
NoCall == [op |-> "none"]

\* the plans explored: at most one of other_join_conjuncts and conjuncts is
\* present, and a null-safe key is explored on inputs that hold a NULL key
HasNullKey(c) ==
    \/ \E i \in 1..Len(c.build) : c.build[i].k = NULL
    \/ \E i \in 1..Len(c.probe) : c.probe[i].k = NULL

JoinConfigs ==
    {c \in [join_op : JoinOps, null_safe : BOOLEAN,
            build : SeqsUpTo(BuildRows, MaxBuild), probe : SeqsUpTo(ProbeRows, MaxProbe),
            batch : 1..MaxBatch, other : OtherKinds, conj : {"none", "bv", "pv"},
            limit : {-1}, child0_exchange : {FALSE}, child1_exchange : {FALSE},
            vec_scan : {FALSE}, build_child_conjuncts : {0}] :
        /\ c.conj \in ConjKinds(c.join_op)
        /\ (c.other = "none" \/ c.conj = "none")
        /\ (c.null_safe => HasNullKey(c))}

InitJoin ==
    /\ jc \in JoinConfigs
    /\ hj = NewNode
    /\ hj2 = NewNode
    /\ ds = NoSender
    /\ sc = NoSender
    /\ fx = NoCall

\* the caller's use of the node: open once, then get_next until it reports eos
Finish(n) == IF n.reof THEN [n EXCEPT !.phase = "done"] ELSE n

JoinOpen ==
    /\ hj.phase = "new"
    /\ \E late \in BOOLEAN : hj' = OpenOp(jc, hj, FALSE, late)
    /\ UNCHANGED <<jc, hj2, sc, ds, fx>>

JoinGetNext ==
    /\ hj.phase = "open"
    /\ \E late \in BOOLEAN, lim \in BOOLEAN : hj' = Finish(GetNextOp(jc, hj, late, lim))
    /\ UNCHANGED <<jc, hj2, sc, ds, fx>>

NextJoin == JoinOpen \/ JoinGetNext

SpecJoin == InitJoin /\ [][NextJoin]_vars

\* two nodes on the same plan and inputs: hj with is_push_down requested, hj2
\* without; both are driven in lock step by the same caller
InitPush ==
    /\ jc \in {c \in JoinConfigs : ~c.null_safe}
    /\ hj = NewNode
    /\ hj2 = NewNode
    /\ ds = NoSender
    /\ sc = NoSender
    /\ fx = NoCall

PushOpen ==
    /\ hj.phase = "new"
    /\ \E late \in BOOLEAN :
         /\ hj' = Finish(OpenOp(jc, hj, TRUE, late))
         /\ hj2' = Finish(OpenOp(jc, hj2, FALSE, late))
    /\ UNCHANGED <<jc, sc, ds, fx>>

PushGetNext ==
    /\ hj.phase = "open" \/ hj2.phase = "open"
    /\ hj.phase # "new"
    /\ \E late \in BOOLEAN, lim \in BOOLEAN :
         /\ hj' = IF hj.phase = "open" THEN Finish(GetNextOp(jc, hj, late, lim)) ELSE hj
         /\ hj2' = IF hj2.phase = "open" THEN Finish(GetNextOp(jc, hj2, late, lim)) ELSE hj2
    /\ UNCHANGED <<jc, sc, ds, fx>>

NextPush == PushOpen \/ PushGetNext

SpecPush == InitPush /\ [][NextPush]_vars

\* ---------------------------------------------- join: reference semantics
\* The SQL result of the join, computed from the inputs alone. An output row
\* is <<p, b>>, indexes into the probe and build input, 0 for a NULL side.
Match(c, p, b) == KeyEq(c, c.probe[p].k, c.build[b].k) /\ OtherPass(c, p, b)
ProbeIdx(c) == 1..Len(c.probe)
BuildIdx(c) == 1..Len(c.build)
RefPairs(c) == {r \in ProbeIdx(c) \X BuildIdx(c) : Match(c, r[1], r[2])}
ProbeMatched(c, p) == \E b \in BuildIdx(c) : Match(c, p, b)
BuildMatched(c, b) == \E p \in ProbeIdx(c) : Match(c, p, b)
ProbeOnly(c) == {<<p, 0>> : p \in {q \in ProbeIdx(c) : ~ProbeMatched(c, q)}}
BuildOnly(c) == {<<0, b>> : b \in {q \in BuildIdx(c) : ~BuildMatched(c, q)}}

RefJoined(c) ==
    CASE c.join_op = "INNER"       -> RefPairs(c)
      [] c.join_op = "LEFT_OUTER"  -> RefPairs(c) \cup ProbeOnly(c)
      [] c.join_op = "RIGHT_OUTER" -> RefPairs(c) \cup BuildOnly(c)
      [] c.join_op = "FULL_OUTER"  -> RefPairs(c) \cup ProbeOnly(c) \cup BuildOnly(c)
      [] c.join_op = "LEFT_SEMI"   -> {<<p, 0>> : p \in {q \in ProbeIdx(c) : ProbeMatched(c, q)}}
      [] c.join_op = "LEFT_ANTI"   -> ProbeOnly(c)
      [] c.join_op = "RIGHT_SEMI"  -> {<<0, b>> : b \in {q \in BuildIdx(c) : BuildMatched(c, q)}}
      [] c.join_op = "RIGHT_ANTI"  -> BuildOnly(c)

RefRows(c) == {r \in RefJoined(c) : ConjPass(c, r[1], r[2])}

\* the value of an output row: the columns the join variant returns
NullRow == [k |-> -1, v |-> -1]
RowVal(c, r) ==
    LET pv == IF r[1] = 0 THEN NullRow ELSE c.probe[r[1]]
        bv == IF r[2] = 0 THEN NullRow ELSE c.build[r[2]]
    IN CASE c.join_op \in {"LEFT_SEMI", "LEFT_ANTI"}   -> <<pv, NullRow>>
         [] c.join_op \in {"RIGHT_SEMI", "RIGHT_ANTI"} -> <<NullRow, bv>>
         [] OTHER                                      -> <<pv, bv>>

SeqVals(c, s) == {RowVal(c, s[i]) : i \in 1..Len(s)}
SetVals(c, S) == {RowVal(c, r) : r \in S}
CountSeq(c, s, x) == Cardinality({i \in 1..Len(s) : RowVal(c, s[i]) = x})
CountSet(c, S, x) == Cardinality({r \in S : RowVal(c, r) = x})

\* the rows of sequence s and the rows of set S are the same multiset of values
SameBagAsSet(c, s, S) ==
    \A x \in SeqVals(c, s) \cup SetVals(c, S) : CountSeq(c, s, x) = CountSet(c, S, x)
\* two sequences of output rows are the same multiset of values
SameBag(c, s, t) ==
    \A x \in SeqVals(c, s) \cup SeqVals(c, t) : CountSeq(c, s, x) = CountSeq(c, t, x)

NoDup(s) == \A i, j \in 1..Len(s) : s[i] = s[j] => i = j

C6_RightAntiExactlyUnmatched ==
    jc.join_op = "RIGHT_ANTI" =>
        /\ NoDup(hj.out)
        /\ \A i \in 1..Len(hj.out) :
             /\ hj.out[i][1] = 0
             /\ hj.out[i][2] \notin hj.matched
             /\ ConjPass(jc, 0, hj.out[i][2])
        /\ hj.phase = "done" =>
             {hj.out[i][2] : i \in 1..Len(hj.out)}
               = {b \in BuildIdx(jc) : b \notin hj.matched /\ ConjPass(jc, 0, b)}

\* a RIGHT_ANTI join whose final scan filled a batch of one row and resumed
C6_Witness ==
    /\ hj.phase = "done"
    /\ jc.join_op = "RIGHT_ANTI" /\ jc.batch = 1
    /\ Len(hj.out) = 2
    /\ Len(jc.probe) > 0

\* the (NULL, build) rows of an output
NullProbeRows(s) == SelectSeq(s, LAMBDA r : r[1] = 0)

\* C7: for RIGHT_OUTER and FULL_OUTER every build row that formed no pair
\* satisfying the equi-keys and other_join_conjuncts is returned exactly once
\* as (NULL, build) if it passes conjuncts, and no build row that formed such
\* a pair is returned in that form, however many get_next calls the scan takes.
C7_OuterUnmatchedBuildOnce ==
    match_all_build(jc) =>
        /\ NoDup(NullProbeRows(hj.out))
        /\ \A i \in 1..Len(hj.out) :
             hj.out[i][1] = 0 => ~BuildMatched(jc, hj.out[i][2])
        /\ hj.phase = "done" =>
             {r[2] : r \in {hj.out[i] : i \in {j \in 1..Len(hj.out) : hj.out[j][1] = 0}}}
               = {b \in BuildIdx(jc) : ~BuildMatched(jc, b) /\ ConjPass(jc, 0, b)}

\* a RIGHT_OUTER join that returned a pair and, over a later call, a build row
\* that no probe row matched
C7_Witness ==
    /\ hj.phase = "done"
    /\ jc.join_op = "RIGHT_OUTER" /\ jc.batch = 1
    /\ \E i \in 1..Len(hj.out) : hj.out[i][1] # 0
    /\ \E i \in 1..Len(hj.out) : hj.out[i][1] = 0
    /\ \E b \in BuildIdx(jc) : BuildMatched(jc, b)

\* C8: when open() performed the push down, the join returns the same
\* multiset of rows as the join without is_push_down on the same inputs.
C8_PushDownSameResult ==
    (hj.phase = "done" /\ hj2.phase = "done" /\ hj.pushed)
        => SameBag(jc, hj.out, hj2.out)

\* =================================================== DataStreamSender
\* ------------------------------------------------------- sender: the plan
PartTypes ==
    {"UNPARTITIONED", "RANDOM", "HASH_PARTITIONED", "BUCKET_SHFFULE_HASH_PARTITIONED"}

MaxDest == 2
MaxSends == 3
MaxRows == 2
MaxCompressed == 2

\* fragment_instance_id.lo of a destination; -1 is the unused bucket of a
\* bucket shuffle
DestIds == {-1, 1, 2}

\* config::max_transmit_batched_bytes, config::vector_chunk_size and the
\* capacity of a channel's RowBatch, scaled down to a few rows
request_bytes_threshold == 1
vector_chunk_size == 2
batch_capacity == 2

\* BlockCompressionCodec::max_input_size of the sender's codec, scaled down to
\* the size of a full chunk
max_input_size == 2

\* the sinks explored. codec tells whether prepare found a compression codec
\* (_compress_codec != nullptr), ratio is config::rpc_compress_ratio_threshold
\* as numerator and denominator, max_input the largest input the codec takes. Every order of the destinations is a plan of its own,
\* which covers the random_shuffle of _channels in prepare. The row path is
\* explored for the partition types whose branch of send needs no
\* PartitionInfo.
SenderConfigs ==
    {c \in [is_vectorized : BOOLEAN, part_type : PartTypes,
            dests : UNION {[1..n -> DestIds] : n \in 1..MaxDest},
            codec : {FALSE}, ratio : {<<11, 10>>}, max_input : {max_input_size}] :
        c.is_vectorized \/ c.part_type # "BUCKET_SHFFULE_HASH_PARTITIONED"}

\* DataStreamSender::DataStreamSender: destination i is served by the Channel
\* created for the first destination with the same fragment_instance_id.lo
ChannelOf(c, i) ==
    CHOOSE j \in 1..i : /\ c.dests[j] = c.dests[i]
                        /\ \A k \in 1..(j - 1) : c.dests[k] # c.dests[i]

\* the Channel objects of a sender
ChannelObjs(c) == {ChannelOf(c, i) : i \in 1..Len(c.dests)}

\* the destinations a Channel object serves
DestsOf(c, k) == {i \in 1..Len(c.dests) : ChannelOf(c, i) = k}

\* Channel::Channel and Channel::init: the fields of a channel after prepare.
\* rpc is the state of the call held by the channel's closure: "none" before
\* the first call, "flying" from the call to its join, then "ok" or "fail".
\* log is the sequence of RPCs the channel has issued; failed tells that a
\* join has found an RPC of the channel failed; ret is the Status of the
\* channel's most recent attempt to send. chunks is the list of ChunkPBs of
\* _chunk_request; bytes_sent and uncompressed_bytes are what the chunks
\* serialized for this channel have added to the counters of the sender.
NewChannel(lo) ==
    [lo |-> lo, request_seq |-> 0, need_close |-> (lo # -1), stub |-> (lo # -1),
     current_request_bytes |-> 0, chunks |-> <<>>, rows |-> 0, batch_rows |-> 0,
     closure |-> FALSE, rpc |-> "none", log |-> <<>>, failed |-> FALSE, ret |-> "OK",
     is_first_chunk |-> TRUE, bytes_sent |-> 0, uncompressed_bytes |-> 0]

\* DataStreamSender::DataStreamSender and prepare; at_wait holds the channels
\* as close finds them when it starts to call close_wait, fed the chunks
\* given to send_chunk so far: the rows of each and the size its bytes
\* compress to
NewSender(c) ==
    [phase |-> "open",
     ch |-> [k \in ChannelObjs(c) |-> NewChannel(c.dests[k])],
     current_request_bytes |-> 0, chunks |-> <<>>, current_channel_idx |-> 0,
     close_status |-> "OK", status |-> "OK", sends |-> 0, at_wait |-> <<>>,
     ignore_rows |-> 0, skipped |-> 0, rows_in |-> <<>>,
     is_first_chunk |-> TRUE, bytes_sent |-> 0, uncompressed_bytes |-> 0, fed |-> <<>>]

\* the size of a serialized chunk of n rows
SerializedBytes(n) == n

\* what serialize_chunk works with besides the chunk: the codec of the
\* sender, the identity of the chunk and the size z its bytes compress to
Cx(c, id, z) ==
    [codec |-> c.codec, ratio |-> c.ratio, max_input |-> c.max_input, id |-> id, z |-> z]

\* a serialize_chunk that compresses also when the ratio only equals the threshold
serialize_chunk_at_threshold(cx, n, first, num_receivers) ==
    LET usize == SerializedBytes(n)
        zip   == cx.codec /\ usize > 0 /\ usize * cx.ratio[2] >= cx.z * cx.ratio[1]
        size  == IF zip THEN cx.z ELSE usize
    IN [st |-> "OK",
        pb |-> [id |-> cx.id, meta |-> first,
                compress_type |-> IF zip THEN "LZ4" ELSE "NO_COMPRESSION",
                uncompressed_size |-> usize, size |-> size],
        bytes_sent |-> size * num_receivers,
        uncompressed_bytes |-> usize * num_receivers]

\* a serialize_chunk that writes the column meta into every chunk
serialize_chunk_always_meta(cx, n, first, num_receivers) ==
    LET usize == SerializedBytes(n)
        zip   == cx.codec /\ usize > 0 /\ usize * cx.ratio[2] > cx.z * cx.ratio[1]
        size  == IF zip THEN cx.z ELSE usize
    IN [st |-> "OK",
        pb |-> [id |-> cx.id, meta |-> TRUE,
                compress_type |-> IF zip THEN "LZ4" ELSE "NO_COMPRESSION",
                uncompressed_size |-> usize, size |-> size],
        bytes_sent |-> size * num_receivers,
        uncompressed_bytes |-> usize * num_receivers]

\* a serialize_chunk that counts the bytes for one receiver only
serialize_chunk_one_receiver(cx, n, first, num_receivers) ==
    LET usize == SerializedBytes(n)
        zip   == cx.codec /\ usize > 0 /\ usize * cx.ratio[2] > cx.z * cx.ratio[1]
        size  == IF zip THEN cx.z ELSE usize
    IN [st |-> "OK",
        pb |-> [id |-> cx.id, meta |-> first,
                compress_type |-> IF zip THEN "LZ4" ELSE "NO_COMPRESSION",
                uncompressed_size |-> usize, size |-> size],
        bytes_sent |-> size,
        uncompressed_bytes |-> usize]

\* DataStreamSender::serialize_chunk: the ChunkPB written for a chunk of n
\* rows, with the column meta if first (*is_first_chunk), and what the call
\* adds to the counters. A chunk the codec cannot take ends the call with an
\* InternalError after the bytes were serialized into the ChunkPB and before
\* uncompressed_size is set or a counter updated. The caller clears the
\* flag behind is_first_chunk.
serialize_chunk(cx, n, first, num_receivers) ==
    LET usize == SerializedBytes(n)
        zip   == cx.codec /\ usize > 0 /\ usize * cx.ratio[2] > cx.z * cx.ratio[1]
        size  == IF zip THEN cx.z ELSE usize
    IN IF cx.codec /\ usize > cx.max_input
       THEN [st |-> "INTERNAL",
             pb |-> [id |-> cx.id, meta |-> first, compress_type |-> "NO_COMPRESSION",
                     uncompressed_size |-> 0, size |-> usize],
             bytes_sent |-> 0, uncompressed_bytes |-> 0]
       ELSE [st |-> "OK",
             pb |-> [id |-> cx.id, meta |-> first,
                     compress_type |-> IF zip THEN "LZ4" ELSE "NO_COMPRESSION",
                     uncompressed_size |-> usize, size |-> size],
             bytes_sent |-> size * num_receivers,
             uncompressed_bytes |-> usize * num_receivers]

\* ------------------------------------------------ sender: Channel, the RPCs
\* one entry of a channel's log: the sequence and eos flag the RPC carries, the
\* number of chunks or rows in it, whether the channel's previous RPC was
\* still not joined when this one was issued, and the ChunkPBs it carries
Frame(ch, eos, n, chunks) ==
    [seq |-> ch.request_seq, eos |-> eos, n |-> n, overlap |-> (ch.rpc = "flying"),
     chunks |-> chunks]

\* brpc::Join on the call of the closure: the RPC that carries sequence bad is
\* found failed, any other is found succeeded; a call already joined keeps
\* its outcome
Join(ch, bad) ==
    IF ch.rpc = "flying"
    THEN [ch EXCEPT !.rpc = IF ch.request_seq - 1 = bad THEN "fail" ELSE "ok",
                    !.failed = @ \/ ch.request_seq - 1 = bad]
    ELSE ch

\* cntl->Failed() or a result status that is not OK
StatusOf(ch) == IF ch.rpc = "fail" THEN "ERR" ELSE "OK"

\* a send that goes ahead without joining the previous RPC
wait_prev_request_skipped(ch, bad) == [st |-> "OK", ch |-> ch]

\* Channel::_wait_prev_request
wait_prev_request(ch, bad) ==
    IF ch.request_seq = 0 THEN [st |-> "OK", ch |-> ch]
    ELSE LET j == Join(ch, bad) IN [st |-> StatusOf(j), ch |-> j]

\* Channel::_wait_last_brpc
wait_last_brpc(ch, bad) ==
    LET j == Join(ch, bad) IN [st |-> StatusOf(j), ch |-> j]

\* an RPC that leaves _request_seq as it was
do_send_chunk_rpc_same_seq(ch, eos, chunks) ==
    IF ~ch.stub THEN [st |-> "CRASH", ch |-> ch]
    ELSE [st |-> "OK",
          ch |-> [ch EXCEPT !.log = Append(@, Frame(ch, eos, Len(chunks), chunks)),
                            !.rpc = "flying"]]

\* Channel::_do_send_chunk_rpc of a request with the given chunks; the call
\* through a null _brpc_stub ends the process
do_send_chunk_rpc(ch, eos, chunks) ==
    IF ~ch.stub THEN [st |-> "CRASH", ch |-> ch]
    ELSE [st |-> "OK",
          ch |-> [ch EXCEPT !.log = Append(@, Frame(ch, eos, Len(chunks), chunks)),
                            !.rpc = "flying", !.request_seq = @ + 1]]

\* a send_one_chunk that already sends when the bytes reach the threshold
send_serialized_at_threshold(ch, has, eos, bad, s) ==
    LET c0 == [ch EXCEPT !.chunks = Append(@, s.pb), !.is_first_chunk = FALSE]
        c1 == IF has
              THEN [c0 EXCEPT !.current_request_bytes = @ + s.pb.size,
                              !.bytes_sent = @ + s.bytes_sent,
                              !.uncompressed_bytes = @ + s.uncompressed_bytes]
              ELSE ch
    IN IF has /\ s.st # "OK"
       THEN [st |-> s.st, ch |-> [c0 EXCEPT !.ret = s.st], sent |-> FALSE]
       ELSE IF c1.current_request_bytes >= request_bytes_threshold \/ eos
       THEN LET w == wait_prev_request(c1, bad)
            IN IF w.st # "OK"
               THEN [st |-> w.st, ch |-> [w.ch EXCEPT !.ret = "ERR"], sent |-> FALSE]
               ELSE LET r == do_send_chunk_rpc(w.ch, eos, w.ch.chunks)
                    IN IF r.st # "OK" THEN [st |-> r.st, ch |-> r.ch, sent |-> FALSE]
                       ELSE [st |-> "OK",
                             ch |-> [r.ch EXCEPT !.chunks = <<>>,
                                                 !.current_request_bytes = 0,
                                                 !.ret = "OK"],
                             sent |-> TRUE]
       ELSE [st |-> "OK", ch |-> c1, sent |-> FALSE]

\* Channel::send_one_chunk from the return of serialize_chunk on; has is
\* chunk != nullptr, s what serialize_chunk returned
send_serialized(ch, has, eos, bad, s) ==
    LET c0 == [ch EXCEPT !.chunks = Append(@, s.pb), !.is_first_chunk = FALSE]
        c1 == IF has
              THEN [c0 EXCEPT !.current_request_bytes = @ + s.pb.size,
                              !.bytes_sent = @ + s.bytes_sent,
                              !.uncompressed_bytes = @ + s.uncompressed_bytes]
              ELSE ch
    IN IF has /\ s.st # "OK"
       THEN [st |-> s.st, ch |-> [c0 EXCEPT !.ret = s.st], sent |-> FALSE]
       ELSE IF c1.current_request_bytes > request_bytes_threshold \/ eos
       THEN LET w == wait_prev_request(c1, bad)
            IN IF w.st # "OK"
               THEN [st |-> w.st, ch |-> [w.ch EXCEPT !.ret = "ERR"], sent |-> FALSE]
               ELSE LET r == do_send_chunk_rpc(w.ch, eos, w.ch.chunks)
                    IN IF r.st # "OK" THEN [st |-> r.st, ch |-> r.ch, sent |-> FALSE]
                       ELSE [st |-> "OK",
                             ch |-> [r.ch EXCEPT !.chunks = <<>>,
                                                 !.current_request_bytes = 0,
                                                 !.ret = "OK"],
                             sent |-> TRUE]
       ELSE [st |-> "OK", ch |-> c1, sent |-> FALSE]

\* Channel::send_one_chunk; n is the number of rows of the chunk
send_one_chunk(ch, has, n, eos, bad, cx) ==
    send_serialized(ch, has, eos, bad, serialize_chunk(cx, n, ch.is_first_chunk, 1))

\* a send_chunk_request that sends whatever the join reports
send_chunk_request_unchecked(ch, chunks, eos, bad) ==
    LET w == wait_prev_request(ch, bad)
        r == do_send_chunk_rpc(w.ch, eos, chunks)
    IN IF r.st # "OK" THEN r ELSE [st |-> "OK", ch |-> [r.ch EXCEPT !.ret = "OK"]]

\* Channel::send_chunk_request; chunks are the chunks of the sender's request
send_chunk_request(ch, chunks, eos, bad) ==
    LET w == wait_prev_request(ch, bad)
    IN IF w.st # "OK" THEN [st |-> w.st, ch |-> [w.ch EXCEPT !.ret = "ERR"]]
       ELSE LET r == do_send_chunk_rpc(w.ch, eos, chunks)
            IN IF r.st # "OK" THEN r ELSE [st |-> "OK", ch |-> [r.ch EXCEPT !.ret = "OK"]]

\* Channel::_send_current_chunk
send_current_chunk(ch, eos, bad, cx) ==
    LET r == send_one_chunk(ch, TRUE, ch.rows, eos, bad, cx)
    IN IF r.st # "OK" THEN [st |-> r.st, ch |-> r.ch]
       ELSE [st |-> "OK", ch |-> [r.ch EXCEPT !.rows = 0]]

\* Channel::add_rows_selective
add_rows_selective(ch, size, bad, cx) ==
    IF ch.rows + size > vector_chunk_size
    THEN LET r == send_current_chunk(ch, FALSE, bad, cx)
         IN IF r.st # "OK" THEN r
            ELSE [st |-> "OK", ch |-> [r.ch EXCEPT !.rows = @ + size]]
    ELSE [st |-> "OK", ch |-> [ch EXCEPT !.rows = @ + size]]

\* Channel::send_batch; n is the number of rows of the batch, 0 for nullptr
send_batch(ch, n, eos, bad) ==
    LET w == IF ~ch.closure THEN [st |-> "OK", ch |-> [ch EXCEPT !.closure = TRUE]]
             ELSE wait_last_brpc(ch, bad)
    IN IF w.st # "OK" THEN [st |-> w.st, ch |-> [w.ch EXCEPT !.ret = "ERR"]]
       ELSE IF ~w.ch.stub THEN [st |-> "CRASH", ch |-> w.ch]
       ELSE [st |-> "OK",
             ch |-> [w.ch EXCEPT !.log = Append(@, Frame(w.ch, eos, n, <<>>)),
                                 !.rpc = "flying",
                                 !.request_seq = @ + 1, !.ret = "OK"]]

\* Channel::send_current_batch
send_current_batch(ch, eos, bad) ==
    send_batch([ch EXCEPT !.batch_rows = 0], ch.batch_rows, eos, bad)

\* Channel::add_row
add_row(ch, bad) ==
    IF ch.batch_rows = batch_capacity
    THEN LET r == send_current_batch(ch, FALSE, bad)
         IN IF r.st # "OK" THEN r
            ELSE [st |-> "OK", ch |-> [r.ch EXCEPT !.batch_rows = @ + 1]]
    ELSE [st |-> "OK", ch |-> [ch EXCEPT !.batch_rows = @ + 1]]

\* a close_internal that waits for the RPC it has issued
close_internal_joined(ch, is_vectorized, bad, cx) ==
    IF ~ch.need_close THEN [st |-> "OK", ch |-> ch]
    ELSE LET r == IF is_vectorized
                  THEN IF ch.rows > 0 THEN send_current_chunk(ch, TRUE, bad, cx)
                       ELSE send_one_chunk(ch, FALSE, 0, TRUE, bad, cx)
                  ELSE IF ch.batch_rows > 0 THEN send_current_batch(ch, TRUE, bad)
                       ELSE send_batch(ch, 0, TRUE, bad)
         IN [st |-> r.st, ch |-> Join(r.ch, bad)]

\* Channel::close_internal
close_internal(ch, is_vectorized, bad, cx) ==
    IF ~ch.need_close THEN [st |-> "OK", ch |-> ch]
    ELSE IF is_vectorized
    THEN IF ch.rows > 0 THEN send_current_chunk(ch, TRUE, bad, cx)
         ELSE LET r == send_one_chunk(ch, FALSE, 0, TRUE, bad, cx)
              IN [st |-> r.st, ch |-> r.ch]
    ELSE IF ch.batch_rows > 0 THEN send_current_batch(ch, TRUE, bad)
         ELSE send_batch(ch, 0, TRUE, bad)

\* Channel::close_wait; cs is the sender's _close_status
close_wait(ch, is_vectorized, bad, cs) ==
    LET w  == IF is_vectorized THEN wait_prev_request(ch, bad) ELSE wait_last_brpc(ch, bad)
        c1 == IF ch.need_close THEN [w.ch EXCEPT !.need_close = FALSE] ELSE ch
    IN [ch |-> [c1 EXCEPT !.rows = 0, !.batch_rows = 0],
        cs |-> IF ch.need_close /\ is_vectorized /\ w.st # "OK" /\ cs = "OK" THEN "ERR" ELSE cs]

\* ------------------------------------------------ sender: DataStreamSender
\* the outcome of a call on channel k inside a loop of the sender: a crash ends
\* the process
Put(d, k, r) ==
    IF r.st = "CRASH" THEN [d EXCEPT !.ch[k] = r.ch, !.phase = "crashed"]
    ELSE [d EXCEPT !.ch[k] = r.ch]

\* _part_type == UNPARTITIONED || _channels.size() == 1
Broadcast(c) == c.part_type = "UNPARTITIONED" \/ Len(c.dests) = 1

\* for (channel : _channels) channel->send_chunk_request(&_chunk_request, ..)
\* from destination i on; stop is RETURN_IF_ERROR, else the status is dropped
RECURSIVE SendRequestToAll(_, _, _, _, _, _)
SendRequestToAll(c, d, i, eos, bad, stop) ==
    IF i > Len(c.dests) THEN d
    ELSE LET k  == ChannelOf(c, i)
             r  == send_chunk_request(d.ch[k], d.chunks, eos, bad[k])
             d1 == Put(d, k, r)
         IN IF r.st = "CRASH" THEN d1
            ELSE IF r.st = "ERR" /\ stop THEN [d1 EXCEPT !.status = "ERR"]
            ELSE SendRequestToAll(c, d1, i + 1, eos, bad, stop)

\* send_chunk, hash partitioning: the loop over the channels; cnt[i] is the
\* number of rows of the chunk that hash to destination i
RECURSIVE AddRowsToAll(_, _, _, _, _, _)
AddRowsToAll(c, d, i, cnt, bad, z) ==
    IF i > Len(c.dests) THEN d
    ELSE LET k == ChannelOf(c, i)
         IN IF cnt[i] = 0 \/ d.ch[k].lo = -1 THEN AddRowsToAll(c, d, i + 1, cnt, bad, z)
            ELSE LET r  == add_rows_selective(d.ch[k], cnt[i], bad[k], Cx(c, 0, z[k]))
                     d1 == Put(d, k, r)
                 IN IF r.st = "CRASH" THEN d1
                    ELSE IF r.st # "OK" THEN [d1 EXCEPT !.status = r.st]
                    ELSE AddRowsToAll(c, d1, i + 1, cnt, bad, z)

RECURSIVE SumTo(_, _)
SumTo(f, n) == IF n = 0 THEN 0 ELSE f[n] + SumTo(f, n - 1)

\* the partition types under which the rows are spread by their hash
Hashed(c) ==
    ~Broadcast(c) /\ c.part_type \in {"HASH_PARTITIONED", "BUCKET_SHFFULE_HASH_PARTITIONED"}

\* the chunks given to send_chunk: the number of rows that hash to each
\* destination, at most vector_chunk_size rows in all; where the rows are not
\* spread by their hash only their number matters, and all are counted on
\* destination 1
Chunks(c) ==
    {f \in [1..Len(c.dests) -> 0..vector_chunk_size] :
        /\ SumTo(f, Len(c.dests)) <= vector_chunk_size
        /\ Hashed(c) \/ \A k \in 2..Len(c.dests) : f[k] = 0}

\* send_chunk, UNPARTITIONED or a single channel, from the return of
\* serialize_chunk on; s is what serialize_chunk returned
send_to_all(c, d0, bad, s) ==
    LET da == [d0 EXCEPT !.chunks = Append(@, s.pb), !.is_first_chunk = FALSE]
        d1 == [da EXCEPT !.current_request_bytes = @ + s.pb.size,
                         !.bytes_sent = @ + s.bytes_sent,
                         !.uncompressed_bytes = @ + s.uncompressed_bytes]
    IN IF s.st # "OK" THEN [da EXCEPT !.status = s.st]
       ELSE IF d1.current_request_bytes > request_bytes_threshold
       THEN LET d2 == SendRequestToAll(c, d1, 1, FALSE, bad, TRUE)
            IN IF d2.phase = "crashed" \/ d2.status # "OK" THEN d2
               ELSE [d2 EXCEPT !.current_request_bytes = 0, !.chunks = <<>>]
       ELSE d1

\* a cursor that moves on after every chunk
NextChannelIdxAlways(c, idx, real_sent) == (idx + 1) % Len(c.dests)

\* send_chunk, RANDOM:  if (real_sent) _current_channel_idx = (idx + 1) % size
NextChannelIdx(c, idx, real_sent) ==
    IF real_sent THEN (idx + 1) % Len(c.dests) ELSE idx

\* DataStreamSender::send_chunk; z[k] is the size the bytes of a chunk
\* serialized on channel k compress to, z[1] that of the chunk given where
\* the chunk is serialized as a whole
send_chunk(c, d, cnt, bad, z) ==
    LET num_rows == SumTo(cnt, Len(c.dests))
        d0       == [d EXCEPT !.status = "OK", !.sends = @ + 1,
                              !.fed = Append(@, [n |-> num_rows, z |-> z[1]])]
    IN IF num_rows = 0 THEN d0
       ELSE IF Broadcast(c)
       THEN send_to_all(c, d0, bad,
                        serialize_chunk(Cx(c, d0.sends, z[1]), num_rows, d0.is_first_chunk,
                                        Len(c.dests)))
       ELSE IF c.part_type = "RANDOM"
       THEN LET k  == ChannelOf(c, d0.current_channel_idx + 1)
                r  == send_one_chunk(d0.ch[k], TRUE, num_rows, FALSE, bad[k],
                                     Cx(c, d0.sends, z[1]))
                d1 == Put(d0, k, r)
            IN IF r.st = "CRASH" THEN d1
               ELSE IF r.st # "OK" THEN [d1 EXCEPT !.status = r.st]
               ELSE [d1 EXCEPT !.current_channel_idx = NextChannelIdx(c, @, r.sent)]
       ELSE AddRowsToAll(c, d0, 1, cnt, bad, z)

\* send, UNPARTITIONED: for (channel : _channels) channel->send_batch(..)
RECURSIVE SendBatchToAll(_, _, _, _, _)
SendBatchToAll(c, d, i, n, bad) ==
    IF i > Len(c.dests) THEN d
    ELSE LET k  == ChannelOf(c, i)
             r  == send_batch(d.ch[k], n, FALSE, bad[k])
             d1 == Put(d, k, r)
         IN IF r.st = "CRASH" THEN d1
            ELSE IF r.st = "ERR" THEN [d1 EXCEPT !.status = "ERR"]
            ELSE SendBatchToAll(c, d1, i + 1, n, bad)

\* send, HASH_PARTITIONED: the loop over the rows; tgt[i] is the destination
\* row i hashes to
RECURSIVE AddRowEach(_, _, _, _, _)
AddRowEach(c, d, i, tgt, bad) ==
    IF i > Len(tgt) THEN d
    ELSE LET k  == ChannelOf(c, tgt[i])
             r  == add_row(d.ch[k], bad[k])
             d1 == Put(d, k, r)
         IN IF r.st = "CRASH" THEN d1
            ELSE IF r.st = "ERR" THEN [d1 EXCEPT !.status = "ERR"]
            ELSE AddRowEach(c, d1, i + 1, tgt, bad)

\* the row batches given to send: the destination each row hashes to, all 1
\* where the rows are not spread by their hash. Under RANGE_PARTITIONED a
\* row is the destination its range code selects, or 0 if its key is in no
\* partition.
Batches(c) ==
    UNION {[1..n -> IF c.part_type = "RANGE_PARTITIONED" THEN 0..Len(c.dests)
                    ELSE IF Hashed(c) THEN 1..Len(c.dests) ELSE {1}] : n \in 0..MaxRows}

\* _ignore_not_found(!sink.__isset.ignore_not_found || sink.ignore_not_found)
ignore_not_found(c) == ~c.isset_ignore_not_found \/ c.ignore_not_found

\* send, RANGE_PARTITIONED: the loop over the rows from row i on, with
\* compute_range_part_code and find_partition; ignore_rows is the local
\* count, added to the IgnoreRows counter after the loop; skipped counts the
\* rows the loop has passed over
RECURSIVE AddRowRange(_, _, _, _, _, _)
AddRowRange(c, d, i, tgt, bad, ignore_rows) ==
    IF i > Len(tgt) THEN [d EXCEPT !.ignore_rows = @ + ignore_rows]
    ELSE IF tgt[i] = 0
    THEN IF ignore_not_found(c)
         THEN AddRowRange(c, [d EXCEPT !.skipped = @ + 1], i + 1, tgt, bad, ignore_rows + 1)
         ELSE [d EXCEPT !.status = "INTERNAL"]
    ELSE LET k  == ChannelOf(c, tgt[i])
             r  == add_row(d.ch[k], bad[k])
             d1 == Put(d, k, r)
         IN IF r.st = "CRASH" THEN d1
            ELSE IF r.st = "ERR" THEN [d1 EXCEPT !.status = "ERR"]
            ELSE AddRowRange(c, d1, i + 1, tgt, bad, ignore_rows)

\* DataStreamSender::send
send(c, d, tgt, bad) ==
    LET d0 == [d EXCEPT !.status = "OK", !.sends = @ + 1,
                        !.rows_in = IF c.part_type = "RANGE_PARTITIONED" THEN tgt ELSE @]
    IN IF Broadcast(c) THEN SendBatchToAll(c, d0, 1, Len(tgt), bad)
       ELSE IF c.part_type = "RANDOM"
       THEN LET k  == ChannelOf(c, d0.current_channel_idx + 1)
                r  == send_batch(d0.ch[k], Len(tgt), FALSE, bad[k])
                d1 == Put(d0, k, r)
            IN IF r.st = "CRASH" THEN d1
               ELSE IF r.st = "ERR" THEN [d1 EXCEPT !.status = "ERR"]
               ELSE [d1 EXCEPT !.current_channel_idx = (@ + 1) % Len(c.dests)]
       ELSE IF c.part_type = "HASH_PARTITIONED" THEN AddRowEach(c, d0, 1, tgt, bad)
       ELSE AddRowRange(c, d0, 1, tgt, bad, 0)

\* close:  for (i ..) _channels[i]->close(state)
RECURSIVE CloseAll(_, _, _, _, _)
CloseAll(c, d, i, bad, z) ==
    IF i > Len(c.dests) THEN d
    ELSE LET k  == ChannelOf(c, i)
             r  == close_internal(d.ch[k], c.is_vectorized, bad[k], Cx(c, 0, z[k]))
             d1 == Put(d, k, r)
         IN IF r.st = "CRASH" THEN d1 ELSE CloseAll(c, d1, i + 1, bad, z)

\* a wait loop that gives up at the first channel whose last RPC failed
RECURSIVE CloseWaitUntilError(_, _, _, _)
CloseWaitUntilError(c, d, i, bad) ==
    IF i > Len(c.dests) THEN d
    ELSE LET k  == ChannelOf(c, i)
             r  == close_wait(d.ch[k], c.is_vectorized, bad[k], d.close_status)
             d1 == [d EXCEPT !.ch[k] = r.ch, !.close_status = r.cs]
         IN IF r.ch.rpc = "fail" THEN d1 ELSE CloseWaitUntilError(c, d1, i + 1, bad)

\* close:  for (i ..) _channels[i]->close_wait(state)
RECURSIVE CloseWaitAll(_, _, _, _)
CloseWaitAll(c, d, i, bad) ==
    IF i > Len(c.dests) THEN d
    ELSE LET k == ChannelOf(c, i)
             r == close_wait(d.ch[k], c.is_vectorized, bad[k], d.close_status)
         IN CloseWaitAll(c, [d EXCEPT !.ch[k] = r.ch, !.close_status = r.cs], i + 1, bad)

\* DataStreamSender::close
close(c, d, bad, z) ==
    LET d1 == IF d.current_request_bytes > 0
              THEN SendRequestToAll(c, d, 1, TRUE, bad, FALSE)
              ELSE CloseAll(c, d, 1, bad, z)
    IN IF d1.phase = "crashed" THEN d1
       ELSE LET d2 == CloseWaitAll(c, d1, 1, bad)
            IN [d2 EXCEPT !.phase = "closed", !.status = d2.close_status,
                          !.at_wait = d1.ch]

\* ------------------------------------------------ sender: state machine
\* the RPC failures an operation can meet: nok[k] of the joins it makes on
\* channel k find their RPC succeeded and the next one finds it failed. An
\* operation joins a channel once for each destination the channel serves,
\* and close joins it once more in close_wait (extra = 1); a channel without
\* a stub has no RPC to join.
Outcomes(c, extra) ==
    {f \in [1..Len(c.dests) -> 0..(Len(c.dests) + 1)] :
        \A k \in 1..Len(c.dests) :
            f[k] <= IF k \in ChannelObjs(c) /\ c.dests[k] # -1
                    THEN Cardinality(DestsOf(c, k)) + extra ELSE 0}

\* the sizes the codec can compress the chunks of one operation to: one for
\* each channel that serializes a chunk of its own, which only the channels
\* of a hash partitioning do; without a codec nothing is compressed
CompressedSizes(c) ==
    {z \in [ChannelObjs(c) -> 1..MaxCompressed] :
        /\ c.codec \/ \A k \in ChannelObjs(c) : z[k] = 1
        /\ Hashed(c) \/ \A k \in ChannelObjs(c) \ {1} : z[k] = 1}

\* the sequence number of the RPC of each channel that is found failed
BadSeq(d, nok) == [k \in DOMAIN d.ch |-> d.ch[k].request_seq - 1 + nok[k]]

InitSender ==
    /\ sc \in SenderConfigs
    /\ ds = NewSender(sc)
    /\ jc = NoJoin
    /\ hj = NewNode
    /\ hj2 = NewNode
    /\ fx = NoCall

SenderSendChunk ==
    /\ ds.phase = "open" /\ sc.is_vectorized /\ ds.sends < MaxSends
    /\ \E cnt \in Chunks(sc), nok \in Outcomes(sc, 0), z \in CompressedSizes(sc) :
         ds' = send_chunk(sc, ds, cnt, BadSeq(ds, nok), z)
    /\ UNCHANGED <<jc, hj, hj2, sc, fx>>

SenderSend ==
    /\ ds.phase = "open" /\ ~sc.is_vectorized /\ ds.sends < MaxSends
    /\ \E tgt \in Batches(sc), nok \in Outcomes(sc, 0) :
         ds' = send(sc, ds, tgt, BadSeq(ds, nok))
    /\ UNCHANGED <<jc, hj, hj2, sc, fx>>

SenderClose ==
    /\ ds.phase = "open"
    /\ \E nok \in Outcomes(sc, 1), z \in CompressedSizes(sc) :
         ds' = close(sc, ds, BadSeq(ds, nok), z)
    /\ UNCHANGED <<jc, hj, hj2, sc, fx>>

NextSender == SenderSendChunk \/ SenderSend \/ SenderClose

SpecSender == InitSender /\ [][NextSender]_vars

\* the row-path sinks with range partitioning, with the field
\* ignore_not_found of the sink set or unset
RangeConfigs ==
    [is_vectorized : {FALSE}, part_type : {"RANGE_PARTITIONED"},
     dests : UNION {[1..n -> DestIds \ {-1}] : n \in 1..MaxDest},
     codec : {FALSE}, ratio : {<<11, 10>>}, max_input : {max_input_size},
     isset_ignore_not_found : BOOLEAN, ignore_not_found : BOOLEAN]

InitRange ==
    /\ sc \in RangeConfigs
    /\ ds = NewSender(sc)
    /\ jc = NoJoin
    /\ hj = NewNode
    /\ hj2 = NewNode
    /\ fx = NoCall

NextRange == SenderSend \/ SenderClose

SpecRange == InitRange /\ [][NextRange]_vars

\* the vectorized sinks with a compression codec; with max_input 1 the codec
\* cannot take a chunk of two rows
CodecConfigs ==
    [is_vectorized : {TRUE}, part_type : PartTypes,
     dests : UNION {[1..n -> DestIds] : n \in 1..MaxDest},
     codec : {TRUE}, ratio : {<<11, 10>>}, max_input : {1, max_input_size}]

InitCodec ==
    /\ sc \in CodecConfigs
    /\ ds = NewSender(sc)
    /\ jc = NoJoin
    /\ hj = NewNode
    /\ hj2 = NewNode
    /\ fx = NoCall

NextCodec == SenderSendChunk \/ SenderClose

SpecCodec == InitCodec /\ [][NextCodec]_vars

\* ------------------------------------------------ sender: the row indexes
MaxChunkRows == 3
MaxChannels == 3
MaxHash == 3

\* send_chunk, hash partitioning: the first loop, over the rows i..n-1;
\* hv is _hash_values, sp is _channel_row_idx_start_points
RECURSIVE CountLoop(_, _, _, _, _)
CountLoop(i, n, c, hv, sp) ==
    IF i >= n THEN [hv |-> hv, sp |-> sp]
    ELSE LET channel_index == (hv[i] % c) % 65536
         IN CountLoop(i + 1, n, c, [hv EXCEPT ![i] = channel_index],
                      [sp EXCEPT ![channel_index] = @ + 1])

\* the second loop:  start_points[i] += start_points[i - 1]  for i in 1..c
RECURSIVE PrefixLoop(_, _, _)
PrefixLoop(i, c, sp) ==
    IF i > c THEN sp
    ELSE PrefixLoop(i + 1, c, [sp EXCEPT ![i] = @ + sp[i - 1]])

\* a third loop that runs over the rows upwards
RECURSIVE FillLoopUp(_, _, _, _, _)
FillLoopUp(i, n, hv, sp, ri) ==
    IF i >= n THEN [sp |-> sp, ri |-> ri]
    ELSE FillLoopUp(i + 1, n, hv, [sp EXCEPT ![hv[i]] = @ - 1],
                    [ri EXCEPT ![sp[hv[i]] - 1] = i])

\* the third loop, over the rows i..0 downwards; ri is _row_indexes
RECURSIVE FillLoop(_, _, _, _)
FillLoop(i, hv, sp, ri) ==
    IF i < 0 THEN [sp |-> sp, ri |-> ri]
    ELSE FillLoop(i - 1, hv, [sp EXCEPT ![hv[i]] = @ - 1],
                  [ri EXCEPT ![sp[hv[i]] - 1] = i])

\* a fill that starts from the first row
FillFromFirst(n, hv, sp, ri) == FillLoopUp(0, n, hv, sp, ri)

\* the fill of _row_indexes:  for (int i = num_rows - 1; i >= 0; --i)
Fill(n, hv, sp, ri) == FillLoop(n - 1, hv, sp, ri)

\* send_chunk, hash partitioning: "compute row indexes for each channel" for
\* a chunk of n rows with the hash values hash and c channels
ComputeRowIndexes(hash, n, c) ==
    LET cnt == CountLoop(0, n, c, hash, [i \in 0..c |-> 0])
        f   == Fill(n, cnt.hv, PrefixLoop(1, c, cnt.sp), [i \in 0..(n - 1) |-> 0])
    IN [hash |-> hash, num_rows |-> n, num_channels |-> c,
        start_points |-> f.sp, row_indexes |-> f.ri]

\* the chunks and sinks of the index computation: the hash of each row
InitIndex ==
    /\ \E n \in 1..MaxChunkRows, c \in 1..MaxChannels :
         \E hash \in [0..(n - 1) -> 0..MaxHash] :
            fx = [op |-> "index", done |-> FALSE, hash |-> hash, num_rows |-> n,
                  num_channels |-> c, start_points |-> <<>>, row_indexes |-> <<>>]
    /\ jc = NoJoin
    /\ hj = NewNode
    /\ hj2 = NewNode
    /\ sc = NoSender
    /\ ds = NoSender

ComputeIndexes ==
    /\ fx.op = "index" /\ ~fx.done
    /\ LET r == ComputeRowIndexes(fx.hash, fx.num_rows, fx.num_channels)
       IN fx' = [fx EXCEPT !.done = TRUE, !.start_points = r.start_points,
                           !.row_indexes = r.row_indexes]
    /\ UNCHANGED <<jc, hj, hj2, sc, ds>>

NextIndex == ComputeIndexes

SpecIndex == InitIndex /\ [][NextIndex]_vars

\* ------------------------------------------------------ fragment executor
\* bounds of the fragments explored
MaxPipelines == 2
MaxMorsels == 2
MaxInstances == 2

\* the plan node ids of the scan nodes of the plan
ScanNodeIds == 1..MaxPipelines

NoMorsel == <<>>

\* convert_scan_range_to_morsel: one new morsel per scan range of the node
convert_scan_range_to_morsel(num_scan_ranges, node_id) ==
    [i \in 1..num_scan_ranges |-> <<node_id, i>>]

\* every driver of a source pipeline gets the first morsel of the source
SourceDriversFirstMorsel(n, is_root, morsels) ==
    [i \in 1..Len(morsels) |->
        [pipeline |-> n, driver_id |-> 0, is_root |-> is_root, morsel |-> morsels[1]]]

\* prepare, the drivers of a source pipeline: one per morsel of its source,
\* driver i with morsel i set
SourceDrivers(n, is_root, morsels) ==
    [i \in 1..Len(morsels) |->
        [pipeline |-> n, driver_id |-> 0, is_root |-> is_root, morsel |-> morsels[i]]]

\* prepare, the drivers of a pipeline without a scan source
InstanceDrivers(n, is_root, driver_instance_count) ==
    [i \in 1..driver_instance_count |->
        [pipeline |-> n, driver_id |-> i - 1, is_root |-> is_root, morsel |-> NoMorsel]]

\* prepare, the loop over the pipelines from pipeline n on
RECURSIVE MakeDrivers(_, _, _)
MakeDrivers(f, n, acc) ==
    IF n > Len(f.pipelines) THEN acc
    ELSE LET pipeline == f.pipelines[n]
             is_root  == (n = Len(f.pipelines))
         IN IF pipeline.is_source
            THEN LET morsels == f.sources[pipeline.plan_node_id]
                     a1 == IF is_root THEN [acc EXCEPT !.num_root_drivers = Len(morsels)]
                           ELSE acc
                 IN MakeDrivers(f, n + 1,
                        [a1 EXCEPT !.drivers = @ \o SourceDrivers(n, is_root, morsels)])
            ELSE LET cnt == pipeline.driver_instance_count
                     a1 == IF is_root THEN [acc EXCEPT !.num_root_drivers = cnt] ELSE acc
                 IN MakeDrivers(f, n + 1,
                        [a1 EXCEPT !.drivers = @ \o InstanceDrivers(n, is_root, cnt)])

\* FragmentExecutor::prepare, from the scan ranges on
prepare(f) ==
    LET f1 == [f EXCEPT !.sources = [id \in ScanNodeIds |->
                            convert_scan_range_to_morsel(f.scan_ranges[id], id)]]
        r  == MakeDrivers(f1, 1, [drivers |-> <<>>, num_root_drivers |-> f.num_root_drivers])
    IN [f1 EXCEPT !.phase = "prepared", !.drivers = r.drivers,
                  !.num_root_drivers = r.num_root_drivers]

\* execute, first loop from driver i on: fail is the first driver whose
\* prepare returns an error, 0 if there is none
RECURSIVE PrepareDrivers(_, _, _)
PrepareDrivers(f, i, fail) ==
    IF i > Len(f.drivers) THEN f
    ELSE IF i = fail
    THEN [f EXCEPT !.events = Append(@, <<"prepare", i, FALSE>>), !.status = "ERR"]
    ELSE PrepareDrivers([f EXCEPT !.events = Append(@, <<"prepare", i, TRUE>>)], i + 1, fail)

\* execute, second loop from driver i on
RECURSIVE DispatchDrivers(_, _)
DispatchDrivers(f, i) ==
    IF i > Len(f.drivers) THEN f
    ELSE DispatchDrivers([f EXCEPT !.events = Append(@, <<"dispatch", i, TRUE>>)], i + 1)

\* one loop that prepares and dispatches driver after driver
RECURSIVE PrepareAndDispatch(_, _, _)
PrepareAndDispatch(f, i, fail) ==
    IF i > Len(f.drivers) THEN f
    ELSE IF i = fail
    THEN [f EXCEPT !.events = Append(@, <<"prepare", i, FALSE>>), !.status = "ERR"]
    ELSE PrepareAndDispatch(
             [f EXCEPT !.events = @ \o << <<"prepare", i, TRUE>>, <<"dispatch", i, TRUE>> >>],
             i + 1, fail)

execute_driver_by_driver(f, fail) ==
    [PrepareAndDispatch([f EXCEPT !.status = "OK"], 1, fail) EXCEPT !.phase = "executed"]

\* FragmentExecutor::execute
execute(f, fail) ==
    LET f1 == PrepareDrivers([f EXCEPT !.status = "OK"], 1, fail)
    IN [(IF f1.status = "OK" THEN DispatchDrivers(f1, 1) ELSE f1) EXCEPT !.phase = "executed"]

\* the pipelines the builder hands over: at least one, each starting with a
\* scan source of a scan node of its own or with another operator
PipelineSets ==
    LET P == [is_source : {TRUE}, plan_node_id : ScanNodeIds, driver_instance_count : {1}]
             \cup [is_source : {FALSE}, plan_node_id : {0},
                   driver_instance_count : 1..MaxInstances]
    IN {ps \in UNION {[1..n -> P] : n \in 1..MaxPipelines} :
           \A i, j \in 1..Len(ps) :
              (i # j /\ ps[i].is_source /\ ps[j].is_source)
                  => ps[i].plan_node_id # ps[j].plan_node_id}

InitFragment ==
    /\ \E ps \in PipelineSets, sr \in [ScanNodeIds -> 0..MaxMorsels] :
         fx = [op |-> "fragment", phase |-> "new", pipelines |-> ps, scan_ranges |-> sr,
               sources |-> <<>>, drivers |-> <<>>, num_root_drivers |-> 0,
               events |-> <<>>, status |-> "OK"]
    /\ jc = NoJoin
    /\ hj = NewNode
    /\ hj2 = NewNode
    /\ sc = NoSender
    /\ ds = NoSender

FragmentPrepare ==
    /\ fx.op = "fragment" /\ fx.phase = "new"
    /\ fx' = prepare(fx)
    /\ UNCHANGED <<jc, hj, hj2, sc, ds>>

FragmentExecute ==
    /\ fx.op = "fragment" /\ fx.phase = "prepared"
    /\ \E fail \in 0..Len(fx.drivers) : fx' = execute(fx, fail)
    /\ UNCHANGED <<jc, hj, hj2, sc, ds>>

NextFragment == FragmentPrepare \/ FragmentExecute

SpecFragment == InitFragment /\ [][NextFragment]_vars

\* ------------------------------------------------- aggregation hash sets
\* bounds of the key batches explored
MaxKey == 2
MaxSetRows == 2

SetKeys == 1..MaxKey

SetVariants == {"OneNumberKey", "OneNullableNumberKey", "OneStringKey",
                "OneNullableStringKey", "SerializedKey"}

NullableVariant(v) == v \in {"OneNullableNumberKey", "OneNullableStringKey"}

\* the key column of a batch: its rows, NULL for a null row, and its physical
\* shape: a plain column, a NullableColumn, or a constant column of nulls
\* (only_null)
KeyColumns(shapes) ==
    {c \in [shape : shapes, rows : UNION {[1..n -> SetKeys \cup {NULL}] : n \in 1..MaxSetRows}] :
        /\ c.shape = "plain" => \A i \in 1..Len(c.rows) : c.rows[i] # NULL
        /\ c.shape = "only_null" => \A i \in 1..Len(c.rows) : c.rows[i] = NULL}

\* the shapes the inserting build_set takes: the nullable variants test the
\* shape themselves, the others require a column that is not nullable
InsertShapes(v) ==
    IF NullableVariant(v) THEN {"plain", "nullable", "only_null"} ELSE {"plain"}

\* the shapes the probe-only build_set takes, by its DCHECKs
ProbeShapes(v) == IF NullableVariant(v) THEN {"nullable", "only_null"} ELSE {"plain"}

\* the key a variant stores for a value: the number, the slice with its
\* bytes, or the row serialized into the buffer
KeyOf(v, x) ==
    IF v \in {"OneNumberKey", "OneNullableNumberKey"} THEN x
    ELSE IF v = "SerializedKey" THEN <<"row", x>>
    ELSE <<"slice", x>>

\* the loop of the inserting build_set from row i on
RECURSIVE EmplaceRows(_, _, _)
EmplaceRows(h, col, i) ==
    IF i > Len(col.rows) THEN h
    ELSE IF col.shape = "nullable" /\ col.rows[i] = NULL
    THEN EmplaceRows([h EXCEPT !.has_null_key = TRUE], col, i + 1)
    ELSE EmplaceRows([h EXCEPT !.hash_set = @ \cup {KeyOf(h.variant, col.rows[i])}],
                     col, i + 1)

\* build_set(chunk_size, key_columns, pool)
build_set(h, col) ==
    IF NullableVariant(h.variant)
    THEN IF col.shape = "only_null" THEN [h EXCEPT !.has_null_key = TRUE]
         ELSE IF col.shape = "nullable" THEN EmplaceRows(h, col, 1)
         ELSE h
    ELSE EmplaceRows(h, col, 1)

\* the loop of the probe-only build_set from row i on
RECURSIVE ContainsRows(_, _, _)
ContainsRows(h, col, i) ==
    IF i > Len(col.rows) THEN h
    ELSE IF col.shape = "nullable" /\ col.rows[i] = NULL
    THEN ContainsRows([h EXCEPT !.has_null_key = TRUE], col, i + 1)
    ELSE ContainsRows(
             [h EXCEPT !.not_founds[i] =
                 IF KeyOf(h.variant, col.rows[i]) \in h.hash_set THEN 0 ELSE 1],
             col, i + 1)

\* build_set(chunk_size, key_columns, not_founds)
build_set_not_founds(h, col) ==
    LET h0 == [h EXCEPT !.not_founds = [i \in 1..Len(col.rows) |-> 0]]
    IN IF NullableVariant(h.variant) /\ col.shape = "only_null"
       THEN [h0 EXCEPT !.has_null_key = TRUE]
       ELSE ContainsRows(h0, col, 1)

InitHashSet ==
    /\ \E v \in SetVariants :
         fx = [op |-> "hash_set", variant |-> v, hash_set |-> {}, has_null_key |-> FALSE,
               not_founds |-> <<>>, call |-> "none", col |-> <<>>]
    /\ jc = NoJoin
    /\ hj = NewNode
    /\ hj2 = NewNode
    /\ sc = NoSender
    /\ ds = NoSender

HashSetBuild ==
    /\ fx.op = "hash_set"
    /\ \E col \in KeyColumns(InsertShapes(fx.variant)) :
         fx' = [build_set(fx, col) EXCEPT !.call = "build", !.col = col]
    /\ UNCHANGED <<jc, hj, hj2, sc, ds>>

HashSetProbe ==
    /\ fx.op = "hash_set"
    /\ \E col \in KeyColumns(ProbeShapes(fx.variant)) :
         fx' = [build_set_not_founds(fx, col) EXCEPT !.call = "probe", !.col = col]
    /\ UNCHANGED <<jc, hj, hj2, sc, ds>>

NextHashSet == HashSetBuild \/ HashSetProbe

SpecHashSet == InitHashSet /\ [][NextHashSet]_vars

\* --------------------------------------------- aggregate function resolver
NoFunction == [make |-> <<"nullptr">>, nullable |-> FALSE]

\* isArithmeticPT of column/type_traits.h
isArithmeticPT(t) ==
    t \notin {"TYPE_CHAR", "TYPE_VARCHAR", "TYPE_DATE", "TYPE_DATETIME", "TYPE_HLL",
              "TYPE_OBJECT"}

Fn(make, is_null) == [make |-> make, nullable |-> is_null]

\* create_object_function<arg_type, return_type, is_null>(name)
create_object_function(name, arg_type, is_null) ==
    IF name \in {"hll_raw_agg", "hll_union"} THEN Fn(<<"HllUnion">>, is_null)
    ELSE IF name = "hll_union_agg" THEN Fn(<<"HllUnionCount">>, is_null)
    ELSE IF name = "bitmap_union" THEN Fn(<<"BitmapUnion">>, is_null)
    ELSE IF name = "bitmap_intersect" THEN Fn(<<"BitmapIntersect">>, is_null)
    ELSE IF name = "bitmap_union_count" THEN Fn(<<"BitmapUnionCount">>, is_null)
    ELSE IF name = "intersect_count" THEN Fn(<<"IntersectCount", arg_type>>, is_null)
    ELSE IF name \in {"ndv", "approx_count_distinct"} THEN Fn(<<"HllNdv", arg_type>>, is_null)
    ELSE IF name = "percentile_union" THEN Fn(<<"PercentileUnion">>, is_null)
    ELSE IF name = "percentile_approx" THEN Fn(<<"PercentileApprox">>, FALSE)
    ELSE NoFunction

\* the window functions at the end of create_function
window_function(name, ArgPT) ==
    IF name \in {"lead", "lag"} THEN Fn(<<"LeadLag", ArgPT>>, FALSE)
    ELSE IF name = "first_value" THEN Fn(<<"FirstValue", ArgPT>>, FALSE)
    ELSE IF name = "last_value" THEN Fn(<<"LastValue", ArgPT>>, FALSE)
    ELSE IF isArithmeticPT(ArgPT) /\ name = "dense_rank" THEN Fn(<<"DenseRank">>, FALSE)
    ELSE IF isArithmeticPT(ArgPT) /\ name = "rank" THEN Fn(<<"Rank">>, FALSE)
    ELSE IF isArithmeticPT(ArgPT) /\ name = "row_number" THEN Fn(<<"RowNumber">>, FALSE)
    ELSE NoFunction

\* create_function<ArgPT, ReturnPT, is_null>(name), in its two overloads
create_function(name, ArgPT, is_null) ==
    IF isArithmeticPT(ArgPT)
    THEN IF name = "count" THEN Fn(<<"Count">>, is_null)
         ELSE IF name = "sum" THEN Fn(<<"Sum", ArgPT>>, is_null)
         ELSE IF name \in {"variance", "variance_pop", "var_pop"}
         THEN Fn(<<"Variance", ArgPT, "pop">>, is_null)
         ELSE IF name \in {"variance_samp", "var_samp"}
         THEN Fn(<<"Variance", ArgPT, "samp">>, is_null)
         ELSE IF name \in {"std", "stddev", "stddev_pop"}
         THEN Fn(<<"Stddev", ArgPT, "pop">>, is_null)
         ELSE IF name = "stddev_samp" THEN Fn(<<"Stddev", ArgPT, "samp">>, is_null)
         ELSE IF name = "bitmap_union_int" THEN Fn(<<"BitmapUnionInt", ArgPT>>, is_null)
         ELSE IF name = "max" THEN Fn(<<"Max", ArgPT>>, is_null)
         ELSE IF name = "min" THEN Fn(<<"Min", ArgPT>>, is_null)
         ELSE IF name = "avg" THEN Fn(<<"Avg", ArgPT>>, is_null)
         ELSE IF name = "multi_distinct_count" THEN Fn(<<"CountDistinct", ArgPT>>, is_null)
         ELSE IF name = "multi_distinct_sum" THEN Fn(<<"SumDistinct", ArgPT>>, is_null)
         ELSE IF name = "group_concat" THEN Fn(<<"GroupConcat", ArgPT>>, is_null)
         ELSE window_function(name, ArgPT)
    ELSE IF name = "avg" THEN Fn(<<"Avg", ArgPT>>, is_null)
         ELSE IF name = "max" THEN Fn(<<"Max", ArgPT>>, is_null)
         ELSE IF name = "min" THEN Fn(<<"Min", ArgPT>>, is_null)
         ELSE IF name = "multi_distinct_count" THEN Fn(<<"CountDistinct", ArgPT>>, is_null)
         ELSE IF name = "group_concat" THEN Fn(<<"GroupConcat", ArgPT>>, is_null)
         ELSE window_function(name, ArgPT)

\* unordered_map::emplace: a key already in the map keeps its value
emplace(m, key, value) == IF key \in DOMAIN m THEN m ELSE m @@ (key :> value)

\* a registration of the variant that is not nullable alone
add_mapping_not_nullable_only(m, r) ==
    emplace(m, <<r[2], r[3], r[4], FALSE>>,
            IF r[1] = "aggregate" THEN create_function(r[2], r[3], FALSE)
            ELSE create_object_function(r[2], r[3], FALSE))

\* add_aggregate_mapping<arg_type, return_type>(name) and
\* add_object_mapping<arg_type, return_type>(name), r = <<kind, name,
\* arg_type, return_type>>
add_mapping(m, r) ==
    LET m1 == emplace(m, <<r[2], r[3], r[4], FALSE>>,
                      IF r[1] = "aggregate" THEN create_function(r[2], r[3], FALSE)
                      ELSE create_object_function(r[2], r[3], FALSE))
    IN emplace(m1, <<r[2], r[3], r[4], TRUE>>,
               IF r[1] = "aggregate" THEN create_function(r[2], r[3], TRUE)
               ELSE create_object_function(r[2], r[3], TRUE))

\* the calls of AggregateFuncResolver::AggregateFuncResolver(), in order
Registrations ==
    <<
       <<"aggregate", "avg", "TYPE_BOOLEAN", "TYPE_DOUBLE">>, <<"aggregate", "avg", "TYPE_TINYINT", "TYPE_DOUBLE">>,
       <<"aggregate", "avg", "TYPE_SMALLINT", "TYPE_DOUBLE">>, <<"aggregate", "avg", "TYPE_INT", "TYPE_DOUBLE">>,
       <<"aggregate", "avg", "TYPE_BIGINT", "TYPE_DOUBLE">>, <<"aggregate", "avg", "TYPE_LARGEINT", "TYPE_DOUBLE">>,
       <<"aggregate", "avg", "TYPE_FLOAT", "TYPE_DOUBLE">>, <<"aggregate", "avg", "TYPE_DOUBLE", "TYPE_DOUBLE">>,
       <<"aggregate", "avg", "TYPE_DECIMALV2", "TYPE_DECIMALV2">>, <<"aggregate", "avg", "TYPE_DATETIME", "TYPE_DATETIME">>,
       <<"aggregate", "avg", "TYPE_DATE", "TYPE_DATE">>, <<"aggregate", "avg", "TYPE_DECIMAL32", "TYPE_DECIMAL128">>,
       <<"aggregate", "avg", "TYPE_DECIMAL64", "TYPE_DECIMAL128">>, <<"aggregate", "avg", "TYPE_DECIMAL128", "TYPE_DECIMAL128">>,
       <<"aggregate", "bitmap_union_int", "TYPE_TINYINT", "TYPE_BIGINT">>, <<"aggregate", "bitmap_union_int", "TYPE_SMALLINT", "TYPE_BIGINT">>,
       <<"aggregate", "bitmap_union_int", "TYPE_INT", "TYPE_BIGINT">>, <<"aggregate", "bitmap_union_int", "TYPE_BIGINT", "TYPE_BIGINT">>,
       <<"aggregate", "count", "TYPE_BIGINT", "TYPE_BIGINT">>, <<"aggregate", "max", "TYPE_BOOLEAN", "TYPE_BOOLEAN">>,
       <<"aggregate", "max", "TYPE_TINYINT", "TYPE_TINYINT">>, <<"aggregate", "max", "TYPE_SMALLINT", "TYPE_SMALLINT">>,
       <<"aggregate", "max", "TYPE_INT", "TYPE_INT">>, <<"aggregate", "max", "TYPE_BIGINT", "TYPE_BIGINT">>,
       <<"aggregate", "max", "TYPE_LARGEINT", "TYPE_LARGEINT">>, <<"aggregate", "max", "TYPE_FLOAT", "TYPE_FLOAT">>,
       <<"aggregate", "max", "TYPE_DOUBLE", "TYPE_DOUBLE">>, <<"aggregate", "max", "TYPE_VARCHAR", "TYPE_VARCHAR">>,
       <<"aggregate", "max", "TYPE_CHAR", "TYPE_CHAR">>, <<"aggregate", "max", "TYPE_DECIMALV2", "TYPE_DECIMALV2">>,
       <<"aggregate", "max", "TYPE_DATETIME", "TYPE_DATETIME">>, <<"aggregate", "max", "TYPE_DATE", "TYPE_DATE">>,
       <<"aggregate", "max", "TYPE_DECIMAL32", "TYPE_DECIMAL32">>, <<"aggregate", "max", "TYPE_DECIMAL64", "TYPE_DECIMAL64">>,
       <<"aggregate", "max", "TYPE_DECIMAL128", "TYPE_DECIMAL128">>, <<"aggregate", "min", "TYPE_BOOLEAN", "TYPE_BOOLEAN">>,
       <<"aggregate", "min", "TYPE_TINYINT", "TYPE_TINYINT">>, <<"aggregate", "min", "TYPE_SMALLINT", "TYPE_SMALLINT">>,
       <<"aggregate", "min", "TYPE_INT", "TYPE_INT">>, <<"aggregate", "min", "TYPE_BIGINT", "TYPE_BIGINT">>,
       <<"aggregate", "min", "TYPE_LARGEINT", "TYPE_LARGEINT">>, <<"aggregate", "min", "TYPE_FLOAT", "TYPE_FLOAT">>,
       <<"aggregate", "min", "TYPE_DOUBLE", "TYPE_DOUBLE">>, <<"aggregate", "min", "TYPE_VARCHAR", "TYPE_VARCHAR">>,
       <<"aggregate", "min", "TYPE_CHAR", "TYPE_CHAR">>, <<"aggregate", "min", "TYPE_DECIMALV2", "TYPE_DECIMALV2">>,
       <<"aggregate", "min", "TYPE_DATETIME", "TYPE_DATETIME">>, <<"aggregate", "min", "TYPE_DATE", "TYPE_DATE">>,
       <<"aggregate", "min", "TYPE_DECIMAL32", "TYPE_DECIMAL32">>, <<"aggregate", "min", "TYPE_DECIMAL64", "TYPE_DECIMAL64">>,
       <<"aggregate", "min", "TYPE_DECIMAL128", "TYPE_DECIMAL128">>, <<"aggregate", "multi_distinct_count", "TYPE_BOOLEAN", "TYPE_BIGINT">>,
       <<"aggregate", "multi_distinct_count", "TYPE_TINYINT", "TYPE_BIGINT">>, <<"aggregate", "multi_distinct_count", "TYPE_SMALLINT", "TYPE_BIGINT">>,
       <<"aggregate", "multi_distinct_count", "TYPE_INT", "TYPE_BIGINT">>, <<"aggregate", "multi_distinct_count", "TYPE_BIGINT", "TYPE_BIGINT">>,
       <<"aggregate", "multi_distinct_count", "TYPE_LARGEINT", "TYPE_BIGINT">>, <<"aggregate", "multi_distinct_count", "TYPE_FLOAT", "TYPE_BIGINT">>,
       <<"aggregate", "multi_distinct_count", "TYPE_DOUBLE", "TYPE_BIGINT">>, <<"aggregate", "multi_distinct_count", "TYPE_CHAR", "TYPE_BIGINT">>,
       <<"aggregate", "multi_distinct_count", "TYPE_VARCHAR", "TYPE_BIGINT">>, <<"aggregate", "multi_distinct_count", "TYPE_DECIMALV2", "TYPE_BIGINT">>,
       <<"aggregate", "multi_distinct_count", "TYPE_DATETIME", "TYPE_BIGINT">>, <<"aggregate", "multi_distinct_count", "TYPE_DATE", "TYPE_BIGINT">>,
       <<"aggregate", "multi_distinct_count", "TYPE_DECIMAL32", "TYPE_BIGINT">>, <<"aggregate", "multi_distinct_count", "TYPE_DECIMAL64", "TYPE_BIGINT">>,
       <<"aggregate", "multi_distinct_count", "TYPE_DECIMAL128", "TYPE_BIGINT">>, <<"aggregate", "multi_distinct_sum", "TYPE_BOOLEAN", "TYPE_BIGINT">>,
       <<"aggregate", "multi_distinct_sum", "TYPE_TINYINT", "TYPE_BIGINT">>, <<"aggregate", "multi_distinct_sum", "TYPE_SMALLINT", "TYPE_BIGINT">>,
       <<"aggregate", "multi_distinct_sum", "TYPE_INT", "TYPE_BIGINT">>, <<"aggregate", "multi_distinct_sum", "TYPE_BIGINT", "TYPE_BIGINT">>,
       <<"aggregate", "multi_distinct_sum", "TYPE_LARGEINT", "TYPE_LARGEINT">>, <<"aggregate", "multi_distinct_sum", "TYPE_DOUBLE", "TYPE_DOUBLE">>,
       <<"aggregate", "multi_distinct_sum", "TYPE_FLOAT", "TYPE_DOUBLE">>, <<"aggregate", "multi_distinct_sum", "TYPE_DECIMALV2", "TYPE_DECIMALV2">>,
       <<"aggregate", "multi_distinct_sum", "TYPE_DECIMAL32", "TYPE_DECIMAL64">>, <<"aggregate", "multi_distinct_sum", "TYPE_DECIMAL64", "TYPE_DECIMAL64">>,
       <<"aggregate", "multi_distinct_sum", "TYPE_DECIMAL128", "TYPE_DECIMAL128">>, <<"aggregate", "sum", "TYPE_BOOLEAN", "TYPE_BIGINT">>,
       <<"aggregate", "sum", "TYPE_TINYINT", "TYPE_BIGINT">>, <<"aggregate", "sum", "TYPE_SMALLINT", "TYPE_BIGINT">>,
       <<"aggregate", "sum", "TYPE_INT", "TYPE_BIGINT">>, <<"aggregate", "sum", "TYPE_LARGEINT", "TYPE_LARGEINT">>,
       <<"aggregate", "sum", "TYPE_BIGINT", "TYPE_BIGINT">>, <<"aggregate", "sum", "TYPE_FLOAT", "TYPE_DOUBLE">>,
       <<"aggregate", "sum", "TYPE_DOUBLE", "TYPE_DOUBLE">>, <<"aggregate", "sum", "TYPE_DECIMALV2", "TYPE_DECIMALV2">>,
       <<"aggregate", "sum", "TYPE_DECIMAL32", "TYPE_DECIMAL64">>, <<"aggregate", "sum", "TYPE_DECIMAL64", "TYPE_DECIMAL64">>,
       <<"aggregate", "sum", "TYPE_DECIMAL128", "TYPE_DECIMAL128">>, <<"aggregate", "variance", "TYPE_BOOLEAN", "TYPE_DOUBLE">>,
       <<"aggregate", "variance", "TYPE_TINYINT", "TYPE_DOUBLE">>, <<"aggregate", "variance", "TYPE_SMALLINT", "TYPE_DOUBLE">>,
       <<"aggregate", "variance", "TYPE_INT", "TYPE_DOUBLE">>, <<"aggregate", "variance", "TYPE_LARGEINT", "TYPE_DOUBLE">>,
       <<"aggregate", "variance", "TYPE_BIGINT", "TYPE_DOUBLE">>, <<"aggregate", "variance", "TYPE_FLOAT", "TYPE_DOUBLE">>,
       <<"aggregate", "variance", "TYPE_DOUBLE", "TYPE_DOUBLE">>, <<"aggregate", "variance", "TYPE_DECIMALV2", "TYPE_DECIMALV2">>,
       <<"aggregate", "variance", "TYPE_DECIMAL128", "TYPE_DECIMAL128">>, <<"aggregate", "variance_pop", "TYPE_BOOLEAN", "TYPE_DOUBLE">>,
       <<"aggregate", "variance_pop", "TYPE_TINYINT", "TYPE_DOUBLE">>, <<"aggregate", "variance_pop", "TYPE_SMALLINT", "TYPE_DOUBLE">>,
       <<"aggregate", "variance_pop", "TYPE_INT", "TYPE_DOUBLE">>, <<"aggregate", "variance_pop", "TYPE_LARGEINT", "TYPE_DOUBLE">>,
       <<"aggregate", "variance_pop", "TYPE_BIGINT", "TYPE_DOUBLE">>, <<"aggregate", "variance_pop", "TYPE_FLOAT", "TYPE_DOUBLE">>,
       <<"aggregate", "variance_pop", "TYPE_DOUBLE", "TYPE_DOUBLE">>, <<"aggregate", "variance_pop", "TYPE_DECIMALV2", "TYPE_DECIMALV2">>,
       <<"aggregate", "variance_pop", "TYPE_DECIMAL128", "TYPE_DECIMAL128">>, <<"aggregate", "var_pop", "TYPE_BOOLEAN", "TYPE_DOUBLE">>,
       <<"aggregate", "var_pop", "TYPE_TINYINT", "TYPE_DOUBLE">>, <<"aggregate", "var_pop", "TYPE_SMALLINT", "TYPE_DOUBLE">>,
       <<"aggregate", "var_pop", "TYPE_INT", "TYPE_DOUBLE">>, <<"aggregate", "var_pop", "TYPE_LARGEINT", "TYPE_DOUBLE">>,
       <<"aggregate", "var_pop", "TYPE_BIGINT", "TYPE_DOUBLE">>, <<"aggregate", "var_pop", "TYPE_FLOAT", "TYPE_DOUBLE">>,
       <<"aggregate", "var_pop", "TYPE_DOUBLE", "TYPE_DOUBLE">>, <<"aggregate", "var_pop", "TYPE_DECIMALV2", "TYPE_DECIMALV2">>,
       <<"aggregate", "var_pop", "TYPE_DECIMAL128", "TYPE_DECIMAL128">>, <<"aggregate", "variance_samp", "TYPE_BOOLEAN", "TYPE_DOUBLE">>,
       <<"aggregate", "variance_samp", "TYPE_TINYINT", "TYPE_DOUBLE">>, <<"aggregate", "variance_samp", "TYPE_SMALLINT", "TYPE_DOUBLE">>,
       <<"aggregate", "variance_samp", "TYPE_INT", "TYPE_DOUBLE">>, <<"aggregate", "variance_samp", "TYPE_LARGEINT", "TYPE_DOUBLE">>,
       <<"aggregate", "variance_samp", "TYPE_BIGINT", "TYPE_DOUBLE">>, <<"aggregate", "variance_samp", "TYPE_FLOAT", "TYPE_DOUBLE">>,
       <<"aggregate", "variance_samp", "TYPE_DOUBLE", "TYPE_DOUBLE">>, <<"aggregate", "variance_samp", "TYPE_DECIMALV2", "TYPE_DECIMALV2">>,
       <<"aggregate", "variance_samp", "TYPE_DECIMAL128", "TYPE_DECIMAL128">>, <<"aggregate", "var_samp", "TYPE_BOOLEAN", "TYPE_DOUBLE">>,
       <<"aggregate", "var_samp", "TYPE_TINYINT", "TYPE_DOUBLE">>, <<"aggregate", "var_samp", "TYPE_SMALLINT", "TYPE_DOUBLE">>,
       <<"aggregate", "var_samp", "TYPE_INT", "TYPE_DOUBLE">>, <<"aggregate", "var_samp", "TYPE_LARGEINT", "TYPE_DOUBLE">>,
       <<"aggregate", "var_samp", "TYPE_BIGINT", "TYPE_DOUBLE">>, <<"aggregate", "var_samp", "TYPE_FLOAT", "TYPE_DOUBLE">>,
       <<"aggregate", "var_samp", "TYPE_DOUBLE", "TYPE_DOUBLE">>, <<"aggregate", "var_samp", "TYPE_DECIMALV2", "TYPE_DECIMALV2">>,
       <<"aggregate", "var_samp", "TYPE_DECIMAL128", "TYPE_DECIMAL128">>, <<"aggregate", "std", "TYPE_BOOLEAN", "TYPE_DOUBLE">>,
       <<"aggregate", "std", "TYPE_TINYINT", "TYPE_DOUBLE">>, <<"aggregate", "std", "TYPE_SMALLINT", "TYPE_DOUBLE">>,
       <<"aggregate", "std", "TYPE_INT", "TYPE_DOUBLE">>, <<"aggregate", "std", "TYPE_LARGEINT", "TYPE_DOUBLE">>,
       <<"aggregate", "std", "TYPE_BIGINT", "TYPE_DOUBLE">>, <<"aggregate", "std", "TYPE_FLOAT", "TYPE_DOUBLE">>,
       <<"aggregate", "std", "TYPE_DOUBLE", "TYPE_DOUBLE">>, <<"aggregate", "std", "TYPE_DECIMALV2", "TYPE_DECIMALV2">>,
       <<"aggregate", "std", "TYPE_DECIMAL128", "TYPE_DECIMAL128">>, <<"aggregate", "stddev", "TYPE_BOOLEAN", "TYPE_DOUBLE">>,
       <<"aggregate", "stddev", "TYPE_TINYINT", "TYPE_DOUBLE">>, <<"aggregate", "stddev", "TYPE_SMALLINT", "TYPE_DOUBLE">>,
       <<"aggregate", "stddev", "TYPE_INT", "TYPE_DOUBLE">>, <<"aggregate", "stddev", "TYPE_LARGEINT", "TYPE_DOUBLE">>,
       <<"aggregate", "stddev", "TYPE_BIGINT", "TYPE_DOUBLE">>, <<"aggregate", "stddev", "TYPE_FLOAT", "TYPE_DOUBLE">>,
       <<"aggregate", "stddev", "TYPE_DOUBLE", "TYPE_DOUBLE">>, <<"aggregate", "stddev", "TYPE_DECIMALV2", "TYPE_DECIMALV2">>,
       <<"aggregate", "stddev", "TYPE_DECIMAL128", "TYPE_DECIMAL128">>, <<"aggregate", "stddev_pop", "TYPE_BOOLEAN", "TYPE_DOUBLE">>,
       <<"aggregate", "stddev_pop", "TYPE_TINYINT", "TYPE_DOUBLE">>, <<"aggregate", "stddev_pop", "TYPE_SMALLINT", "TYPE_DOUBLE">>,
       <<"aggregate", "stddev_pop", "TYPE_INT", "TYPE_DOUBLE">>, <<"aggregate", "stddev_pop", "TYPE_LARGEINT", "TYPE_DOUBLE">>,
       <<"aggregate", "stddev_pop", "TYPE_BIGINT", "TYPE_DOUBLE">>, <<"aggregate", "stddev_pop", "TYPE_FLOAT", "TYPE_DOUBLE">>,
       <<"aggregate", "stddev_pop", "TYPE_DOUBLE", "TYPE_DOUBLE">>, <<"aggregate", "stddev_pop", "TYPE_DECIMALV2", "TYPE_DECIMALV2">>,
       <<"aggregate", "stddev_pop", "TYPE_DECIMAL128", "TYPE_DECIMAL128">>, <<"aggregate", "stddev_samp", "TYPE_BOOLEAN", "TYPE_DOUBLE">>,
       <<"aggregate", "stddev_samp", "TYPE_TINYINT", "TYPE_DOUBLE">>, <<"aggregate", "stddev_samp", "TYPE_SMALLINT", "TYPE_DOUBLE">>,
       <<"aggregate", "stddev_samp", "TYPE_INT", "TYPE_DOUBLE">>, <<"aggregate", "stddev_samp", "TYPE_LARGEINT", "TYPE_DOUBLE">>,
       <<"aggregate", "stddev_samp", "TYPE_BIGINT", "TYPE_DOUBLE">>, <<"aggregate", "stddev_samp", "TYPE_FLOAT", "TYPE_DOUBLE">>,
       <<"aggregate", "stddev_samp", "TYPE_DOUBLE", "TYPE_DOUBLE">>, <<"aggregate", "stddev_samp", "TYPE_DECIMALV2", "TYPE_DECIMALV2">>,
       <<"aggregate", "stddev_samp", "TYPE_DECIMAL128", "TYPE_DECIMAL128">>, <<"aggregate", "dense_rank", "TYPE_BIGINT", "TYPE_BIGINT">>,
       <<"aggregate", "rank", "TYPE_BIGINT", "TYPE_BIGINT">>, <<"aggregate", "row_number", "TYPE_BIGINT", "TYPE_BIGINT">>,
       <<"aggregate", "group_concat", "TYPE_CHAR", "TYPE_VARCHAR">>, <<"aggregate", "group_concat", "TYPE_VARCHAR", "TYPE_VARCHAR">>,
       <<"aggregate", "first_value", "TYPE_BOOLEAN", "TYPE_BOOLEAN">>, <<"aggregate", "first_value", "TYPE_TINYINT", "TYPE_TINYINT">>,
       <<"aggregate", "first_value", "TYPE_SMALLINT", "TYPE_SMALLINT">>, <<"aggregate", "first_value", "TYPE_INT", "TYPE_INT">>,
       <<"aggregate", "first_value", "TYPE_BIGINT", "TYPE_BIGINT">>, <<"aggregate", "first_value", "TYPE_LARGEINT", "TYPE_LARGEINT">>,
       <<"aggregate", "first_value", "TYPE_FLOAT", "TYPE_FLOAT">>, <<"aggregate", "first_value", "TYPE_DOUBLE", "TYPE_DOUBLE">>,
       <<"aggregate", "first_value", "TYPE_VARCHAR", "TYPE_VARCHAR">>, <<"aggregate", "first_value", "TYPE_CHAR", "TYPE_CHAR">>,
       <<"aggregate", "first_value", "TYPE_DECIMALV2", "TYPE_DECIMALV2">>, <<"aggregate", "first_value", "TYPE_DATETIME", "TYPE_DATETIME">>,
       <<"aggregate", "first_value", "TYPE_DATE", "TYPE_DATE">>, <<"aggregate", "first_value", "TYPE_DECIMAL32", "TYPE_DECIMAL32">>,
       <<"aggregate", "first_value", "TYPE_DECIMAL64", "TYPE_DECIMAL64">>, <<"aggregate", "first_value", "TYPE_DECIMAL128", "TYPE_DECIMAL128">>,
       <<"aggregate", "last_value", "TYPE_BOOLEAN", "TYPE_BOOLEAN">>, <<"aggregate", "last_value", "TYPE_TINYINT", "TYPE_TINYINT">>,
       <<"aggregate", "last_value", "TYPE_SMALLINT", "TYPE_SMALLINT">>, <<"aggregate", "last_value", "TYPE_INT", "TYPE_INT">>,
       <<"aggregate", "last_value", "TYPE_BIGINT", "TYPE_BIGINT">>, <<"aggregate", "last_value", "TYPE_LARGEINT", "TYPE_LARGEINT">>,
       <<"aggregate", "last_value", "TYPE_FLOAT", "TYPE_FLOAT">>, <<"aggregate", "last_value", "TYPE_DOUBLE", "TYPE_DOUBLE">>,
       <<"aggregate", "last_value", "TYPE_VARCHAR", "TYPE_VARCHAR">>, <<"aggregate", "last_value", "TYPE_CHAR", "TYPE_CHAR">>,
       <<"aggregate", "last_value", "TYPE_DECIMALV2", "TYPE_DECIMALV2">>, <<"aggregate", "last_value", "TYPE_DATETIME", "TYPE_DATETIME">>,
       <<"aggregate", "last_value", "TYPE_DATE", "TYPE_DATE">>, <<"aggregate", "last_value", "TYPE_DECIMAL32", "TYPE_DECIMAL32">>,
       <<"aggregate", "last_value", "TYPE_DECIMAL64", "TYPE_DECIMAL64">>, <<"aggregate", "last_value", "TYPE_DECIMAL128", "TYPE_DECIMAL128">>,
       <<"aggregate", "lead", "TYPE_BOOLEAN", "TYPE_BOOLEAN">>, <<"aggregate", "lead", "TYPE_TINYINT", "TYPE_TINYINT">>,
       <<"aggregate", "lead", "TYPE_SMALLINT", "TYPE_SMALLINT">>, <<"aggregate", "lead", "TYPE_INT", "TYPE_INT">>,
       <<"aggregate", "lead", "TYPE_BIGINT", "TYPE_BIGINT">>, <<"aggregate", "lead", "TYPE_LARGEINT", "TYPE_LARGEINT">>,
       <<"aggregate", "lead", "TYPE_FLOAT", "TYPE_FLOAT">>, <<"aggregate", "lead", "TYPE_DOUBLE", "TYPE_DOUBLE">>,
       <<"aggregate", "lead", "TYPE_VARCHAR", "TYPE_VARCHAR">>, <<"aggregate", "lead", "TYPE_CHAR", "TYPE_CHAR">>,
       <<"aggregate", "lead", "TYPE_DECIMALV2", "TYPE_DECIMALV2">>, <<"aggregate", "lead", "TYPE_DATETIME", "TYPE_DATETIME">>,
       <<"aggregate", "lead", "TYPE_DATE", "TYPE_DATE">>, <<"aggregate", "lead", "TYPE_DECIMAL32", "TYPE_DECIMAL32">>,
       <<"aggregate", "lead", "TYPE_DECIMAL64", "TYPE_DECIMAL64">>, <<"aggregate", "lead", "TYPE_DECIMAL128", "TYPE_DECIMAL128">>,
       <<"aggregate", "lag", "TYPE_BOOLEAN", "TYPE_BOOLEAN">>, <<"aggregate", "lag", "TYPE_TINYINT", "TYPE_TINYINT">>,
       <<"aggregate", "lag", "TYPE_SMALLINT", "TYPE_SMALLINT">>, <<"aggregate", "lag", "TYPE_INT", "TYPE_INT">>,
       <<"aggregate", "lag", "TYPE_BIGINT", "TYPE_BIGINT">>, <<"aggregate", "lag", "TYPE_LARGEINT", "TYPE_LARGEINT">>,
       <<"aggregate", "lag", "TYPE_FLOAT", "TYPE_FLOAT">>, <<"aggregate", "lag", "TYPE_DOUBLE", "TYPE_DOUBLE">>,
       <<"aggregate", "lag", "TYPE_VARCHAR", "TYPE_VARCHAR">>, <<"aggregate", "lag", "TYPE_CHAR", "TYPE_CHAR">>,
       <<"aggregate", "lag", "TYPE_DECIMALV2", "TYPE_DECIMALV2">>, <<"aggregate", "lag", "TYPE_DATETIME", "TYPE_DATETIME">>,
       <<"aggregate", "lag", "TYPE_DATE", "TYPE_DATE">>, <<"aggregate", "lag", "TYPE_DECIMAL32", "TYPE_DECIMAL32">>,
       <<"aggregate", "lag", "TYPE_DECIMAL64", "TYPE_DECIMAL64">>, <<"aggregate", "lag", "TYPE_DECIMAL128", "TYPE_DECIMAL128">>,
       <<"object", "hll_union", "TYPE_HLL", "TYPE_HLL">>, <<"object", "hll_raw_agg", "TYPE_HLL", "TYPE_HLL">>,
       <<"object", "hll_union_agg", "TYPE_HLL", "TYPE_BIGINT">>, <<"object", "bitmap_union", "TYPE_OBJECT", "TYPE_OBJECT">>,
       <<"object", "bitmap_union_count", "TYPE_OBJECT", "TYPE_BIGINT">>, <<"object", "intersect_count", "TYPE_TINYINT", "TYPE_BIGINT">>,
       <<"object", "intersect_count", "TYPE_SMALLINT", "TYPE_BIGINT">>, <<"object", "intersect_count", "TYPE_INT", "TYPE_BIGINT">>,
       <<"object", "intersect_count", "TYPE_BIGINT", "TYPE_BIGINT">>, <<"object", "intersect_count", "TYPE_LARGEINT", "TYPE_BIGINT">>,
       <<"object", "intersect_count", "TYPE_FLOAT", "TYPE_BIGINT">>, <<"object", "intersect_count", "TYPE_DOUBLE", "TYPE_BIGINT">>,
       <<"object", "intersect_count", "TYPE_DATE", "TYPE_BIGINT">>, <<"object", "intersect_count", "TYPE_DATETIME", "TYPE_BIGINT">>,
       <<"object", "intersect_count", "TYPE_DECIMALV2", "TYPE_BIGINT">>, <<"object", "intersect_count", "TYPE_CHAR", "TYPE_BIGINT">>,
       <<"object", "intersect_count", "TYPE_VARCHAR", "TYPE_BIGINT">>, <<"object", "bitmap_intersect", "TYPE_OBJECT", "TYPE_OBJECT">>,
       <<"object", "ndv", "TYPE_BOOLEAN", "TYPE_BIGINT">>, <<"object", "ndv", "TYPE_TINYINT", "TYPE_BIGINT">>,
       <<"object", "ndv", "TYPE_SMALLINT", "TYPE_BIGINT">>, <<"object", "ndv", "TYPE_INT", "TYPE_BIGINT">>,
       <<"object", "ndv", "TYPE_BIGINT", "TYPE_BIGINT">>, <<"object", "ndv", "TYPE_LARGEINT", "TYPE_BIGINT">>,
       <<"object", "ndv", "TYPE_FLOAT", "TYPE_BIGINT">>, <<"object", "ndv", "TYPE_DOUBLE", "TYPE_BIGINT">>,
       <<"object", "ndv", "TYPE_CHAR", "TYPE_BIGINT">>, <<"object", "ndv", "TYPE_VARCHAR", "TYPE_BIGINT">>,
       <<"object", "ndv", "TYPE_DECIMALV2", "TYPE_BIGINT">>, <<"object", "ndv", "TYPE_DATETIME", "TYPE_BIGINT">>,
       <<"object", "ndv", "TYPE_DATE", "TYPE_BIGINT">>, <<"object", "ndv", "TYPE_DECIMAL32", "TYPE_BIGINT">>,
       <<"object", "ndv", "TYPE_DECIMAL64", "TYPE_BIGINT">>, <<"object", "ndv", "TYPE_DECIMAL128", "TYPE_BIGINT">>,
       <<"object", "approx_count_distinct", "TYPE_BOOLEAN", "TYPE_BIGINT">>, <<"object", "approx_count_distinct", "TYPE_TINYINT", "TYPE_BIGINT">>,
       <<"object", "approx_count_distinct", "TYPE_SMALLINT", "TYPE_BIGINT">>, <<"object", "approx_count_distinct", "TYPE_INT", "TYPE_BIGINT">>,
       <<"object", "approx_count_distinct", "TYPE_BIGINT", "TYPE_BIGINT">>, <<"object", "approx_count_distinct", "TYPE_LARGEINT", "TYPE_BIGINT">>,
       <<"object", "approx_count_distinct", "TYPE_FLOAT", "TYPE_BIGINT">>, <<"object", "approx_count_distinct", "TYPE_DOUBLE", "TYPE_BIGINT">>,
       <<"object", "approx_count_distinct", "TYPE_CHAR", "TYPE_BIGINT">>, <<"object", "approx_count_distinct", "TYPE_VARCHAR", "TYPE_BIGINT">>,
       <<"object", "approx_count_distinct", "TYPE_DECIMALV2", "TYPE_BIGINT">>, <<"object", "approx_count_distinct", "TYPE_DATETIME", "TYPE_BIGINT">>,
       <<"object", "approx_count_distinct", "TYPE_DATE", "TYPE_BIGINT">>, <<"object", "approx_count_distinct", "TYPE_DECIMAL32", "TYPE_BIGINT">>,
       <<"object", "approx_count_distinct", "TYPE_DECIMAL64", "TYPE_BIGINT">>, <<"object", "approx_count_distinct", "TYPE_DECIMAL128", "TYPE_BIGINT">>,
       <<"object", "percentile_approx", "TYPE_BIGINT", "TYPE_DOUBLE">>, <<"object", "percentile_approx", "TYPE_DOUBLE", "TYPE_DOUBLE">>,
       <<"object", "percentile_union", "TYPE_PERCENTILE", "TYPE_PERCENTILE">>
    >>

\* AggregateFuncResolver::AggregateFuncResolver(): the map after the
\* registrations lo..hi; of two emplaced values of one key the earlier stays
RECURSIVE Registered(_, _)
Registered(lo, hi) ==
    IF lo = hi THEN add_mapping(<<>>, Registrations[lo])
    ELSE LET mid == (lo + hi) \div 2
         IN Registered(lo, mid) @@ Registered(mid + 1, hi)

\* get_aggregate_info / get_aggregate_function
get_aggregate_function(m, name, arg_type, return_type, is_null) ==
    IF <<name, arg_type, return_type, is_null>> \notin DOMAIN m THEN NoFunction
    ELSE m[<<name, arg_type, return_type, is_null>>]

\* the names and types looked up: those of the registrations and one more
LookupNames == {Registrations[i][2] : i \in 1..Len(Registrations)} \cup {"median"}

LookupTypes ==
    {Registrations[i][3] : i \in 1..Len(Registrations)}
        \cup {Registrations[i][4] : i \in 1..Len(Registrations)} \cup {"TYPE_TIME"}

InitRegistry ==
    /\ fx = [op |-> "registry", infos_mapping |-> Registered(1, Len(Registrations)),
             key |-> <<>>, result |-> NoFunction, returned |-> FALSE]
    /\ jc = NoJoin
    /\ hj = NewNode
    /\ hj2 = NewNode
    /\ sc = NoSender
    /\ ds = NoSender

\* a call of get_aggregate_function
RegistryLookup ==
    /\ fx.op = "registry" /\ ~fx.returned
    /\ \E name \in LookupNames, arg \in LookupTypes, ret \in LookupTypes, is_null \in BOOLEAN :
         fx' = [fx EXCEPT !.key = <<name, arg, ret, is_null>>,
                          !.result = get_aggregate_function(fx.infos_mapping, name, arg,
                                                            ret, is_null),
                          !.returned = TRUE]
    /\ UNCHANGED <<jc, hj, hj2, sc, ds>>

\* the caller has taken the result
RegistryReturn ==
    /\ fx.op = "registry" /\ fx.returned
    /\ fx' = [fx EXCEPT !.key = <<>>, !.result = NoFunction, !.returned = FALSE]
    /\ UNCHANGED <<jc, hj, hj2, sc, ds>>

NextRegistry == RegistryLookup \/ RegistryReturn

SpecRegistry == InitRegistry /\ [][NextRegistry]_vars

\* -------------------------------------- hash join: open and the build task
\* bounds of the runs explored
MaxBuildBatches == 2
MaxOut == 2

\* open has returned: its frame, with the promise thread_status, is gone
Returned(f) == f.pc \in {"opened", "failed"}

ReturnError(f, st, from_build) ==
    [f EXCEPT !.pc = "failed", !.ret = st, !.ret_from_build = from_build]

\* a build loop that does not look at the flag
return_if_cancelled_never(f) == [f EXCEPT !.bpc = "fetch"]

\* construct_hash_table: RETURN_IF_CANCELLED at the top of the loop
return_if_cancelled(f) ==
    IF f.cancelled THEN [f EXCEPT !.bpc = "deliver", !.bret = "CANCELLED"]
    ELSE [f EXCEPT !.bpc = "fetch"]

\* build_side_thread / construct_hash_table, one step; ok tells whether the
\* call to the build child succeeds
build_step(f, ok) ==
    IF f.bpc = "open"
    THEN IF ok THEN [f EXCEPT !.bpc = "check"]
         ELSE [f EXCEPT !.bpc = "deliver", !.bret = "ERR", !.build_err = TRUE]
    ELSE IF f.bpc = "check" THEN return_if_cancelled(f)
    ELSE IF f.bpc = "fetch"
    THEN IF ok THEN [f EXCEPT !.bpc = "insert", !.fetched = @ + 1,
                              !.eos = (f.fetched + 1 = f.num_batches)]
         ELSE [f EXCEPT !.bpc = "deliver", !.bret = "ERR", !.build_err = TRUE]
    ELSE IF f.bpc = "insert"
    THEN LET f1 == [f EXCEPT !.inserted = @ + 1,
                             !.inserted_after_cancel = IF f.cancelled THEN @ + 1 ELSE @]
         IN IF f.eos THEN [f1 EXCEPT !.bpc = "deliver", !.bret = "OK"]
            ELSE [f1 EXCEPT !.bpc = "check"]
    ELSE \* "deliver": status->set_value(...)
         [f EXCEPT !.bpc = "done", !.status = f.bret,
                   !.written_after_return = f.async /\ Returned(f)]

\* the calling thread reads _hash_tbl (size, begin, find, the iteration of
\* the push down); the read is remembered, and so is a read made while the
\* build task has not yet delivered its status
read_hash_tbl(f) ==
    [f EXCEPT !.table_read = TRUE, !.read_during_build = @ \/ f.bpc # "done"]

\* an open that does not wait for the build once the probe child is open
after_probe_open_seeds(f, open_status) ==
    [f EXCEPT !.pc = "seed", !.probe_opened = TRUE, !.open_status = open_status]

\* an open that returns the error of the probe child as soon as it sees it
after_probe_open_returns(f, open_status) ==
    IF open_status = "OK" THEN [f EXCEPT !.pc = "wait", !.probe_opened = TRUE,
                                         !.open_status = open_status]
    ELSE ReturnError([f EXCEPT !.probe_opened = TRUE], open_status, FALSE)

\* open without pushdown: child(0)->open is called and its status kept
after_probe_open(f, open_status) ==
    [f EXCEPT !.pc = "wait", !.probe_opened = TRUE, !.open_status = open_status]

\* HashJoinNode::open, one step of the calling thread; r is the outcome of
\* the call the step makes to the probe child or to the pushdown
open_step(f, r) ==
    IF f.pc = "call"
    THEN IF f.cancelled THEN ReturnError(f, "CANCELLED", FALSE)
         ELSE IF f.async THEN [f EXCEPT !.bpc = "open", !.started = TRUE,
                                        !.pc = IF f.push THEN "wait_push" ELSE "probe_open"]
         ELSE [f EXCEPT !.bpc = "open", !.pc = "inline"]
    ELSE IF f.pc = "inline"
    THEN [f EXCEPT !.pc = IF f.push THEN "wait_push" ELSE "probe_open"]
    ELSE IF f.pc = "wait_push"
    THEN IF f.status # "OK" THEN ReturnError(f, f.status, TRUE)
         ELSE IF f.inserted = 0 /\ f.inner
         THEN IF r = "OK" THEN [read_hash_tbl(f) EXCEPT !.pc = "opened", !.ret = "OK",
                                                        !.probe_opened = TRUE]
              ELSE ReturnError([read_hash_tbl(f) EXCEPT !.probe_opened = TRUE], "ERR", FALSE)
         ELSE [read_hash_tbl(f) EXCEPT !.pc = "pushdown"]
    ELSE IF f.pc = "pushdown"
    THEN IF r = "PREPARE_ERR" THEN ReturnError(read_hash_tbl(f), "ERR", FALSE)
         ELSE IF r = "OK" THEN [read_hash_tbl(f) EXCEPT !.pc = "seed", !.probe_opened = TRUE]
         ELSE ReturnError([read_hash_tbl(f) EXCEPT !.probe_opened = TRUE], "ERR", FALSE)
    ELSE IF f.pc = "probe_open"
    THEN after_probe_open(f, IF r = "OK" THEN "OK" ELSE "ERR")
    ELSE IF f.pc = "wait"
    THEN IF f.status # "OK" THEN ReturnError(f, f.status, TRUE)
         ELSE IF f.open_status # "OK" THEN ReturnError(f, f.open_status, FALSE)
         ELSE [f EXCEPT !.pc = "seed"]
    ELSE \* "seed": the first get_next of the probe child
         IF r = "OK" THEN [read_hash_tbl(f) EXCEPT !.pc = "opened", !.ret = "OK"]
         ELSE ReturnError(f, "ERR", FALSE)

\* HashJoinNode::get_next: RETURN_IF_CANCELLED, then rows are added
get_next_cancellable(f) ==
    IF f.cancelled THEN [f EXCEPT !.get_next_ret = "CANCELLED", !.calls = @ + 1]
    ELSE [read_hash_tbl(f) EXCEPT !.get_next_ret = "OK", !.out = @ + 1, !.calls = @ + 1]

InitOpen ==
    /\ \E async \in BOOLEAN, push \in BOOLEAN, inner \in BOOLEAN,
          nb \in 1..MaxBuildBatches :
         fx = [op |-> "open", async |-> async, push |-> push, inner |-> inner,
               num_batches |-> nb, cancelled |-> FALSE,
               pc |-> "call", ret |-> "none", ret_from_build |-> FALSE,
               probe_opened |-> FALSE, open_status |-> "none", started |-> FALSE,
               bpc |-> "idle", bret |-> "none", status |-> "unset", build_err |-> FALSE,
               fetched |-> 0, inserted |-> 0, eos |-> FALSE,
               cancelled_in_build |-> FALSE, inserted_after_cancel |-> 0,
               written_after_return |-> FALSE,
               table_read |-> FALSE, read_during_build |-> FALSE,
               out |-> 0, calls |-> 0, get_next_ret |-> "none"]
    /\ jc = NoJoin
    /\ hj = NewNode
    /\ hj2 = NewNode
    /\ sc = NoSender
    /\ ds = NoSender

\* the calling thread takes a step of open; it blocks on the future until
\* the status is set, and runs the build itself when it has no thread token
OpenStep ==
    /\ fx.op = "open" /\ ~Returned(fx)
    /\ fx.pc \in {"wait_push", "wait"} => fx.status # "unset"
    /\ fx.pc = "inline" => fx.bpc = "done"
    /\ \E r \in {"OK", "ERR", "PREPARE_ERR"} : fx' = open_step(fx, r)
    /\ UNCHANGED <<jc, hj, hj2, sc, ds>>

\* the build task takes a step
BuildStep ==
    /\ fx.op = "open" /\ fx.bpc \notin {"idle", "done"}
    /\ \E ok \in BOOLEAN : fx' = build_step(fx, ok)
    /\ UNCHANGED <<jc, hj, hj2, sc, ds>>

\* the query is cancelled
Cancel ==
    /\ fx.op = "open" /\ ~fx.cancelled
    /\ fx' = [fx EXCEPT !.cancelled = TRUE,
                        !.cancelled_in_build = fx.bpc \in {"open", "check", "fetch", "insert"}]
    /\ UNCHANGED <<jc, hj, hj2, sc, ds>>

\* a call of get_next after open has succeeded
OpenGetNext ==
    /\ fx.op = "open" /\ fx.pc = "opened" /\ fx.out < MaxOut /\ fx.calls < MaxOut
    /\ fx' = get_next_cancellable(fx)
    /\ UNCHANGED <<jc, hj, hj2, sc, ds>>

NextOpen == OpenStep \/ BuildStep \/ Cancel \/ OpenGetNext

SpecOpen == InitOpen /\ [][NextOpen]_vars

\* ------------------------------------------- hash join: push down in open
\* the sizes of the built hash table explored
TableSizes == {0, 1, PushDownMaxRows, PushDownMaxRows + 1}

\* open() from the end of the build to the opening of the probe child, for a
\* hash table of the given size: the IN-predicates built (one per probe
\* expression, the plans explored have one) and the calls of
\* push_down_predicate
open_push_down(c, pd, size) ==
    IF PushDownAllowed(c, pd) /\ size = 0 /\ c.join_op = "INNER"
    THEN [in_predicates |-> 0, push_down_calls |-> 0, eos |-> TRUE]
    ELSE IF PushDownDoneAt(c, pd, size)
    THEN [in_predicates |-> 1, push_down_calls |-> 1, eos |-> FALSE]
    ELSE [in_predicates |-> 0, push_down_calls |-> 0, eos |-> FALSE]

InitPushDown ==
    /\ \E c \in [join_op : JoinOps, null_safe : BOOLEAN, child0_exchange : BOOLEAN,
                 child1_exchange : BOOLEAN, vec_scan : BOOLEAN,
                 build_child_conjuncts : {0, 1}],
          pd \in BOOLEAN, size \in TableSizes :
         fx = [op |-> "push_down", c |-> c, is_push_down |-> pd, size |-> size,
               done |-> FALSE, res |-> NoCall]
    /\ jc = NoJoin
    /\ hj = NewNode
    /\ hj2 = NewNode
    /\ sc = NoSender
    /\ ds = NoSender

OpenPushDown ==
    /\ fx.op = "push_down" /\ ~fx.done
    /\ fx' = [fx EXCEPT !.done = TRUE,
                        !.res = open_push_down(fx.c, fx.is_push_down, fx.size)]
    /\ UNCHANGED <<jc, hj, hj2, sc, ds>>

NextPushDown == OpenPushDown

SpecPushDown == InitPushDown /\ [][NextPushDown]_vars

\* ------------------------------------- aggregation hash sets: slice keys
MaxPadding == 2    \* the values of SLICE_MEMEQUAL_OVERFLOW_PADDING explored

\* the key bytes explored, and the bytes standing for the row of a null
SliceBytes == {<<1>>, <<2>>, <<1, 1>>}
NullBytes == <<0>>

SliceVariants == {"OneStringKey", "OneNullableStringKey", "SerializedKey"}

\* get_max_serialize_size(key_columns): the widest serialized row of a batch
RowSizes == {4, 8, 9, 10}

RECURSIVE ByteSum(_)
ByteSum(b) == IF b = <<>> THEN 0 ELSE Head(b) + ByteSum(Tail(b))

\* SliceHashWithSeed: a function of the bytes alone under which different
\* keys can collide
SliceHashWithSeed(b) == ByteSum(b) % 2

\* TSliceWithHash(const Slice& src): the slice itself with the hash of its bytes
TSliceWithHash(area, at, b) ==
    [area |-> area, at |-> at, bytes |-> b, hash |-> SliceHashWithSeed(b)]

\* TEqualOnSliceWithHash
TEqualOnSliceWithHash(x, y) == x.hash = y.hash /\ x.bytes = y.bytes

\* hash_set.contains(key)
contains(h, key) == \E e \in h.hash_set : TEqualOnSliceWithHash(e, key)

\* an insertion that persists the key before it looks it up
emplace_persisted(h, key) ==
    LET h1 == [h EXCEPT !.arena = Append(@, key.bytes)]
    IN IF contains(h, key) THEN h1
       ELSE [h1 EXCEPT !.hash_set = @ \cup {[area |-> "arena", at |-> Len(h.arena) + 1,
                                             bytes |-> key.bytes, hash |-> key.hash]}]

\* hash_set.lazy_emplace(key, ctor): the constructor runs only for a key
\* that is absent; it allocates key.size bytes in the pool, copies the bytes
\* and stores (pos, key.size, key.hash)
lazy_emplace(h, key) ==
    IF contains(h, key) THEN h
    ELSE [h EXCEPT !.arena = Append(@, key.bytes),
                   !.hash_set = @ \cup {[area |-> "arena", at |-> Len(h.arena) + 1,
                                         bytes |-> key.bytes, hash |-> key.hash]}]

\* where the key of row i lies when build_set hashes it
KeyArea(v) == IF v = "SerializedKey" THEN "buffer" ELSE "column"

\* the loop of the inserting build_set from row i on
RECURSIVE SliceEmplaceRows(_, _, _)
SliceEmplaceRows(h, col, i) ==
    IF i > Len(col.rows) THEN h
    ELSE IF col.shape = "nullable" /\ col.rows[i] = NullBytes
    THEN SliceEmplaceRows([h EXCEPT !.has_null_key = TRUE], col, i + 1)
    ELSE SliceEmplaceRows(
             lazy_emplace(h, TSliceWithHash(KeyArea(h.variant), i, col.rows[i])), col, i + 1)

\* the loop of the probe-only build_set from row i on
RECURSIVE SliceContainsRows(_, _, _)
SliceContainsRows(h, col, i) ==
    IF i > Len(col.rows) THEN h
    ELSE IF col.shape = "nullable" /\ col.rows[i] = NullBytes
    THEN SliceContainsRows([h EXCEPT !.has_null_key = TRUE], col, i + 1)
    ELSE SliceContainsRows(
             [h EXCEPT !.not_founds[i] =
                 IF contains(h, TSliceWithHash(KeyArea(h.variant), i, col.rows[i]))
                 THEN 0 ELSE 1],
             col, i + 1)

\* AggHashSetOfSerializedKey: the scratch buffer of the constructor
NewBuffer(max_one_row_size) == max_one_row_size * vector_chunk_size

\* AggHashSetOfSerializedKey::build_set(chunk_size, key_columns, pool): the
\* buffer is replaced when the batch has a wider row than any before
GrowBufferPadded(h, cur_max_one_row_size) ==
    IF cur_max_one_row_size > h.max_one_row_size
    THEN [h EXCEPT !.max_one_row_size = cur_max_one_row_size,
                   !.buffer = cur_max_one_row_size * vector_chunk_size + h.padding]
    ELSE h

\* AggHashSetOfSerializedKey::build_set(chunk_size, key_columns, not_founds)
GrowBuffer(h, cur_max_one_row_size) ==
    IF cur_max_one_row_size > h.max_one_row_size
    THEN [h EXCEPT !.max_one_row_size = cur_max_one_row_size,
                   !.buffer = cur_max_one_row_size * vector_chunk_size]
    ELSE h

\* build_set(chunk_size, key_columns, pool) of the string and serialized sets
slice_build_set(h, col, cur_max_one_row_size) ==
    IF h.variant = "SerializedKey"
    THEN SliceEmplaceRows(GrowBufferPadded(h, cur_max_one_row_size), col, 1)
    ELSE IF h.variant = "OneNullableStringKey"
    THEN IF col.shape = "only_null" THEN [h EXCEPT !.has_null_key = TRUE]
         ELSE IF col.shape = "nullable" THEN SliceEmplaceRows(h, col, 1)
         ELSE h
    ELSE SliceEmplaceRows(h, col, 1)

\* build_set(chunk_size, key_columns, not_founds) of the same sets
slice_build_set_not_founds(h, col, cur_max_one_row_size) ==
    LET h0 == [h EXCEPT !.not_founds = [i \in 1..Len(col.rows) |-> 0]]
    IN IF h.variant = "SerializedKey"
       THEN SliceContainsRows(GrowBuffer(h0, cur_max_one_row_size), col, 1)
       ELSE IF h.variant = "OneNullableStringKey" /\ col.shape = "only_null"
       THEN [h0 EXCEPT !.has_null_key = TRUE]
       ELSE SliceContainsRows(h0, col, 1)

\* the key column of a batch of slices
SliceColumns(shapes) ==
    {c \in [shape : shapes,
            rows : UNION {[1..n -> SliceBytes \cup {NullBytes}] : n \in 1..MaxSetRows}] :
        /\ c.shape = "plain" => \A i \in 1..Len(c.rows) : c.rows[i] # NullBytes
        /\ c.shape = "only_null" => \A i \in 1..Len(c.rows) : c.rows[i] = NullBytes}

InitSliceSet ==
    /\ \E v \in SliceVariants, pad \in 1..MaxPadding :
         fx = [op |-> "slice_set", variant |-> v, hash_set |-> {}, arena |-> <<>>,
               has_null_key |-> FALSE, not_founds |-> <<>>, call |-> "none",
               col |-> [shape |-> "plain", rows |-> <<>>],
               padding |-> pad, max_one_row_size |-> 8, buffer |-> NewBuffer(8)]
    /\ jc = NoJoin
    /\ hj = NewNode
    /\ hj2 = NewNode
    /\ sc = NoSender
    /\ ds = NoSender

SliceSetBuild ==
    /\ fx.op = "slice_set"
    /\ \E col \in SliceColumns(InsertShapes(fx.variant)),
          size \in IF fx.variant = "SerializedKey" THEN RowSizes ELSE {8} :
         fx' = [slice_build_set(fx, col, size) EXCEPT !.call = "build", !.col = col]
    /\ UNCHANGED <<jc, hj, hj2, sc, ds>>

SliceSetProbe ==
    /\ fx.op = "slice_set"
    /\ \E col \in SliceColumns(ProbeShapes(fx.variant)),
          size \in IF fx.variant = "SerializedKey" THEN RowSizes ELSE {8} :
         fx' = [slice_build_set_not_founds(fx, col, size) EXCEPT !.call = "probe", !.col = col]
    /\ UNCHANGED <<jc, hj, hj2, sc, ds>>

NextSliceSet == SliceSetBuild \/ SliceSetProbe

SpecSliceSet == InitSliceSet /\ [][NextSliceSet]_vars

\* ------------------------- aggregation hash sets: insert_keys_to_columns
\* std::vector::resize(n): the first n entries, new entries are zero
resize(v, n) ==
    IF Len(v) >= n THEN SubSeq(v, 1, n) ELSE v \o [i \in 1..(n - Len(v)) |-> 0]

\* insert_keys_to_columns of the nullable one-key sets: the first batch_size
\* keys are appended to the data column, then null_column_data() is resized
insert_keys_to_columns(out, keys, batch_size) ==
    [data |-> out.data \o SubSeq(keys, 1, batch_size),
     nulls |-> resize(out.nulls, batch_size)]

\* a nullable output column: its data column and its null bitmap (1 = null)
NullableColumns(v) ==
    UNION {[data : [1..n -> {KeyOf(v, x) : x \in SetKeys}], nulls : [1..n -> {0, 1}]] :
              n \in 0..MaxSetRows}

InitInsertKeys ==
    /\ \E v \in {w \in SetVariants : NullableVariant(w)} :
         \E out \in NullableColumns(v),
            keys \in UNION {[1..n -> {KeyOf(v, x) : x \in SetKeys}] : n \in 1..MaxSetRows} :
           \E batch_size \in 0..Len(keys) :
             fx = [op |-> "insert_keys", variant |-> v, before |-> out, out |-> out,
                   keys |-> keys, batch_size |-> batch_size, done |-> FALSE]
    /\ jc = NoJoin
    /\ hj = NewNode
    /\ hj2 = NewNode
    /\ sc = NoSender
    /\ ds = NoSender

InsertKeys ==
    /\ fx.op = "insert_keys" /\ ~fx.done
    /\ fx' = [fx EXCEPT !.done = TRUE,
                        !.out = insert_keys_to_columns(fx.out, fx.keys, fx.batch_size)]
    /\ UNCHANGED <<jc, hj, hj2, sc, ds>>

NextInsertKeys == InsertKeys

SpecInsertKeys == InitInsertKeys /\ [][NextInsertKeys]_vars

\* ------------------------------------------------ hash join: row limit
MaxLimit == 2      \* the row limits explored: 0..MaxLimit
MaxAfterLimit == 2 \* get_next calls made after the limit was reached

\* the plans explored with a row limit: no conjuncts, no null-safe key
LimitConfigs ==
    [join_op : JoinOps, null_safe : {FALSE},
     build : SeqsUpTo(BuildRows, MaxBuild), probe : SeqsUpTo(ProbeRows, MaxProbe),
     batch : 1..MaxBatch, other : {"none"}, conj : {"none"},
     limit : 0..MaxLimit, child0_exchange : {FALSE}, child1_exchange : {FALSE},
     vec_scan : {FALSE}, build_child_conjuncts : {0}]

InitLimit ==
    /\ jc \in LimitConfigs
    /\ hj = NewNode
    /\ hj2 = NewNode
    /\ ds = NoSender
    /\ sc = NoSender
    /\ fx = [op |-> "limit", after_limit |-> 0]

LimitOpen ==
    /\ fx.op = "limit" /\ hj.phase = "new"
    /\ \E late \in BOOLEAN : hj' = OpenOp(jc, hj, FALSE, late)
    /\ UNCHANGED <<jc, hj2, sc, ds, fx>>

\* the caller calls get_next until eos
LimitGetNext ==
    /\ fx.op = "limit" /\ hj.phase = "open" /\ ~reached_limit(jc, hj)
    /\ \E late, lim \in BOOLEAN : hj' = Finish(GetNextOp(jc, hj, late, lim))
    /\ UNCHANGED <<jc, hj2, sc, ds, fx>>

\* a get_next call made when the limit has been reached
LimitGetNextAfter ==
    /\ fx.op = "limit" /\ hj.phase \in {"open", "done"} /\ reached_limit(jc, hj)
    /\ fx.after_limit < MaxAfterLimit
    /\ \E late, lim \in BOOLEAN : hj' = Finish(GetNextOp(jc, hj, late, lim))
    /\ fx' = [fx EXCEPT !.after_limit = @ + 1]
    /\ UNCHANGED <<jc, hj2, sc, ds>>

NextLimit == LimitOpen \/ LimitGetNext \/ LimitGetNextAfter

SpecLimit == InitLimit /\ [][NextLimit]_vars

\* ------------------------------------------------ sender: serialize_chunk
\* the values of config::rpc_compress_ratio_threshold explored, as numerator
\* and denominator
RatioThresholds == {<<1, 1>>, <<11, 10>>, <<2, 1>>}

\* the calls explored: a chunk of up to MaxChunkRows rows, with or without a
\* codec, and the size the codec compresses its bytes to
InitSerialize ==
    /\ \E codec \in BOOLEAN, ratio \in RatioThresholds, m \in {1, MaxChunkRows},
          n \in 0..MaxChunkRows, z \in 1..MaxCompressed, first \in BOOLEAN :
         fx = [op |-> "serialize", done |-> FALSE,
               cx |-> [codec |-> codec, ratio |-> ratio, max_input |-> m, id |-> 0,
                       z |-> z],
               n |-> n, first |-> first, out |-> NoCall]
    /\ jc = NoJoin
    /\ hj = NewNode
    /\ hj2 = NewNode
    /\ sc = NoSender
    /\ ds = NoSender

SerializeChunk ==
    /\ fx.op = "serialize" /\ ~fx.done
    /\ fx' = [fx EXCEPT !.done = TRUE,
                        !.out = serialize_chunk(fx.cx, fx.n, fx.first, 1)]
    /\ UNCHANGED <<jc, hj, hj2, sc, ds>>

NextSerialize == SerializeChunk

SpecSerialize == InitSerialize /\ [][NextSerialize]_vars

\* ---------------------------------------------------------- sender: claims
\* the Channel objects of the sender under way
Chans == IF ds.phase = "none" THEN {} ELSE ChannelObjs(sc)

\* the positions of the eos frames in a channel's log
EosFrames(ch) == {i \in 1..Len(ch.log) : ch.log[i].eos}

\* the channel issued exactly one eos frame, and issued it last
OneEosLast(ch) == EosFrames(ch) = {Len(ch.log)} /\ Len(ch.log) > 0

\* C2: on every channel a new RPC is issued only after the previous RPC of
\* the channel has been joined, so a channel never has two RPCs outstanding.
C2_OneRpcInFlight ==
    \A k \in Chans : \A i \in 1..Len(ds.ch[k].log) : ~ds.ch[k].log[i].overlap

\* a channel that issued a second RPC, which is still in flight
C2_Witness ==
    \E k \in Chans : Len(ds.ch[k].log) >= 2 /\ ds.ch[k].rpc = "flying"

\* C3: the RPCs issued on one channel carry the sequence numbers 0, 1, 2, ...
\* in issue order, whichever path issued them.
C3_SequenceNumbersInOrder ==
    \A k \in Chans : \A i \in 1..Len(ds.ch[k].log) : ds.ch[k].log[i].seq = i - 1

\* a closed vectorized sender with a channel that issued two data frames and
\* then its eos frame
C3_Witness ==
    /\ ds.phase = "closed" /\ sc.is_vectorized
    /\ \E k \in Chans : Len(ds.ch[k].log) >= 3 /\ ds.ch[k].log[Len(ds.ch[k].log)].eos

\* C4: for a sender with no RPC failure, after close every reachable channel
\* has issued exactly one RPC with eos = true, and that RPC is the last one
\* issued on the channel.
C4_OneEosFrameLast ==
    (ds.phase = "closed" /\ \A k \in Chans : ~ds.ch[k].failed)
        => \A k \in Chans : ds.ch[k].stub => OneEosLast(ds.ch[k])

\* C5: a Channel object shared by several destinations is flushed once on
\* sender close: it issues a single eos frame, not one per destination.
C5_SharedChannelOneEos ==
    ds.phase = "closed"
        => \A k \in Chans :
             Cardinality(DestsOf(sc, k)) > 1 => Cardinality(EosFrames(ds.ch[k])) <= 1

\* C9: close calls close_wait on every channel, also after the close or the
\* close_wait of an earlier channel failed: when close has returned no
\* channel has an RPC in flight and none still needs its close.
C9_CloseWaitsOnEveryChannel ==
    ds.phase = "closed"
        => \A k \in Chans : ds.ch[k].rpc # "flying" /\ ~ds.ch[k].need_close

\* a closed sender whose first channel failed and whose second channel had
\* its eos frame issued and joined
C9_Witness ==
    /\ ds.phase = "closed"
    /\ \E k, j \in Chans :
         /\ k < j
         /\ ds.ch[k].failed
         /\ ds.ch[j].rpc = "ok" /\ OneEosLast(ds.ch[j])

\* C10: once an RPC of a channel has failed, no operation issues a further
\* RPC on that channel and every attempt to send on it returns an error; an
\* attempt to send on a channel returns an error only if an RPC of that very
\* channel failed.
C10_FailureFatalToChannel ==
    [][\A k \in Chans :
         /\ ds.ch[k].failed
              => /\ ds'.ch[k].log = ds.ch[k].log
                 /\ ds'.ch[k].ret = "ERR"
         /\ ds'.ch[k].ret = "ERR" => ds'.ch[k].failed]_vars

\* a closed sender whose first channel failed before its eos frame could be
\* issued, and whose second channel went on to issue its eos frame
C10_Witness ==
    /\ ds.phase = "closed" /\ ds.sends >= 2
    /\ \E k, j \in Chans :
         /\ k < j
         /\ ds.ch[k].failed /\ ds.ch[k].ret = "ERR" /\ EosFrames(ds.ch[k]) = {}
         /\ ds.ch[j].rpc = "ok" /\ ds.ch[j].ret = "OK" /\ OneEosLast(ds.ch[j])

\* C11: when the close of the sender finds the RPC of a channel failed, close
\* returns a status that is not OK, on the vectorized path and on the row
\* path alike.
C11_CloseReportsFailure ==
    [][(ds.phase = "open" /\ ds'.phase = "closed"
        /\ \E k \in Chans : ~ds.ch[k].failed /\ ds'.ch[k].failed)
           => ds'.status # "OK"]_vars

\* C12: close is two-phase: when it starts to wait for the channels, every
\* channel that needs a close and whose flush reported no error has had its
\* eos frame issued as its last RPC, and that RPC is still not joined;
\* Channel::close does not wait for the frame it issues.
C12_EosIssuedBeforeAnyWait ==
    ds.phase = "closed"
        => \A k \in Chans :
             LET a == ds.at_wait[k]
             IN (a.need_close /\ a.ret = "OK")
                    => /\ a.log # <<>>
                       /\ a.log[Len(a.log)].eos
                       /\ a.rpc = "flying"

\* a closed sender with two channels, each of which had sent data before, had
\* its eos frame in flight when the waiting began, and was joined by the end
C12_Witness ==
    /\ ds.phase = "closed"
    /\ \E k, j \in Chans :
         /\ k # j
         /\ \A i \in {k, j} :
              /\ Len(ds.at_wait[i].log) >= 2
              /\ ds.at_wait[i].rpc = "flying"
              /\ ds.at_wait[i].log[Len(ds.at_wait[i].log)].eos
              /\ ds.ch[i].rpc = "ok"

\* the BytesSent and UncompressedBytes counters of the profile: what the
\* sender's own request and the requests of its channels have added
RECURSIVE SumBytes(_, _, _)
SumBytes(d, ks, compressed) ==
    IF ks = {} THEN 0
    ELSE LET k == CHOOSE x \in ks : TRUE
         IN (IF compressed THEN d.ch[k].bytes_sent ELSE d.ch[k].uncompressed_bytes)
                + SumBytes(d, ks \ {k}, compressed)

BytesSent(d) == d.bytes_sent + SumBytes(d, DOMAIN d.ch, TRUE)

UncompressedBytes(d) == d.uncompressed_bytes + SumBytes(d, DOMAIN d.ch, FALSE)

\* the chunks fed to send_chunk that were serialized: those with rows that
\* the codec took
SerializedOf(c, fed) ==
    SeqFilter(fed, {e \in {fed[i] : i \in 1..Len(fed)} :
                       e.n > 0 /\ ~(c.codec /\ SerializedBytes(e.n) > c.max_input)})

\* the bytes the chunks of a list were sent as (compressed) or held before
\* compression, summed
RECURSIVE FedBytes(_, _, _)
FedBytes(c, fed, compressed) ==
    IF fed = <<>> THEN 0
    ELSE LET pb == serialize_chunk(Cx(c, 0, Head(fed).z), Head(fed).n, FALSE, 1).pb
         IN (IF compressed THEN pb.size ELSE pb.uncompressed_size)
                + FedBytes(c, Tail(fed), compressed)

\* C13: under UNPARTITIONED the BytesSent counter is the sum, over the chunks
\* serialized so far, of the serialized size times the number of channels,
\* and UncompressedBytes the sum of the uncompressed size times the number of
\* channels.
C13_BroadcastBytesCounters ==
    (ds.phase # "none" /\ sc.part_type = "UNPARTITIONED")
        => /\ BytesSent(ds) =
                  Len(sc.dests) * FedBytes(sc, SerializedOf(sc, ds.fed), TRUE)
           /\ UncompressedBytes(ds) =
                  Len(sc.dests) * FedBytes(sc, SerializedOf(sc, ds.fed), FALSE)

\* an UNPARTITIONED sender with two channels that was given three chunks, one
\* of which went out compressed
C13_Witness ==
    /\ ds.phase = "open" /\ sc.part_type = "UNPARTITIONED" /\ Len(sc.dests) = 2
    /\ Len(SerializedOf(sc, ds.fed)) = 3
    /\ 0 < BytesSent(ds) /\ BytesSent(ds) < UncompressedBytes(ds)

\* the ChunkPBs a channel has been sent, in the order of its RPCs
RECURSIVE Payload(_)
Payload(log) == IF log = <<>> THEN <<>> ELSE Head(log).chunks \o Payload(Tail(log))

\* the identities of the chunks with rows among the first n given to send_chunk
RECURSIVE FedIds(_, _)
FedIds(fed, n) ==
    IF n = 0 THEN <<>>
    ELSE FedIds(fed, n - 1) \o (IF fed[n].n > 0 THEN <<n>> ELSE <<>>)

\* C14: under UNPARTITIONED, once a sender that met no RPC failure is closed,
\* every channel has been sent the same sequence of chunks, and that sequence
\* holds every chunk with rows that was given to send_chunk exactly once.
C14_BroadcastSamePayloadOnce ==
    (/\ ds.phase = "closed" /\ sc.is_vectorized /\ sc.part_type = "UNPARTITIONED"
     /\ \A k \in Chans : ~ds.ch[k].failed)
        => \A k \in Chans :
             /\ \A j \in Chans : Payload(ds.ch[k].log) = Payload(ds.ch[j].log)
             /\ [i \in 1..Len(Payload(ds.ch[k].log)) |-> Payload(ds.ch[k].log)[i].id]
                    = FedIds(ds.fed, Len(ds.fed))

\* C15: under RANDOM send_chunk hands the chunk to the channel at the cursor
\* and to no other; the cursor moves on by one, modulo the number of
\* channels, exactly when that call issued an RPC, and it always stays
\* within [0, number of channels).
C15_RoundRobinCursor ==
    [][(/\ sc.is_vectorized /\ sc.part_type = "RANDOM" /\ ~Broadcast(sc)
        /\ ds.phase = "open" /\ ds'.sends = ds.sends + 1)
           => LET k    == ChannelOf(sc, ds.current_channel_idx + 1)
                  sent == Len(ds'.ch[k].log) > Len(ds.ch[k].log)
              IN /\ \A j \in Chans \ {k} : ds'.ch[j] = ds.ch[j]
                 /\ ds'.fed[Len(ds'.fed)].n > 0 /\ ds'.phase = "open" /\ ds'.status = "OK"
                        => ds'.ch[k] # ds.ch[k]
                 /\ ds'.current_channel_idx =
                        IF sent THEN (ds.current_channel_idx + 1) % Len(sc.dests)
                        ELSE ds.current_channel_idx
                 /\ ds'.current_channel_idx \in 0..(Len(sc.dests) - 1)]_vars

\* a RANDOM sender with two channels whose cursor has gone round: a chunk was
\* buffered on the first channel, the next one made that channel send, the
\* cursor moved to the second channel and, after its send, back to the first
C15_Witness ==
    /\ sc.is_vectorized /\ sc.part_type = "RANDOM" /\ Cardinality(Chans) = 2
    /\ ds.phase = "open" /\ ds.sends = 3 /\ ds.current_channel_idx = 0
    /\ \A k \in Chans : Len(ds.ch[k].log) = 1
    /\ Len(ds.ch[1].log[1].chunks) = 2

\* C16: after the index computation for a chunk of n rows and c channels,
\* row_indexes is a permutation of 0..n-1, start_points[0] = 0 and
\* start_points[c] = n, and for every channel i the slice
\* [start_points[i], start_points[i+1]) holds exactly the rows whose hash
\* modulo c is i, in ascending row order.
C16_RowIndexesGroupRows ==
    (fx.op = "index" /\ fx.done)
        => LET n  == fx.num_rows
               c  == fx.num_channels
               sp == fx.start_points
               ri == fx.row_indexes
           IN /\ {ri[j] : j \in 0..(n - 1)} = 0..(n - 1)
              /\ sp[0] = 0 /\ sp[c] = n
              /\ \A i \in 0..(c - 1) :
                   /\ sp[i] <= sp[i + 1]
                   /\ {ri[j] : j \in sp[i]..(sp[i + 1] - 1)}
                          = {r \in 0..(n - 1) : fx.hash[r] % c = i}
                   /\ \A j \in sp[i]..(sp[i + 1] - 2) : ri[j] < ri[j + 1]

\* a chunk of three rows for two channels whose rows alternate between the
\* channels, so that the rows of the first channel are not contiguous
C16_Witness ==
    /\ fx.op = "index" /\ fx.done
    /\ fx.num_rows = 3 /\ fx.num_channels = 2
    /\ fx.hash[0] % 2 = 0 /\ fx.hash[1] % 2 = 1 /\ fx.hash[2] % 2 = 0
    /\ fx.row_indexes = [j \in 0..2 |-> IF j = 0 THEN 0 ELSE IF j = 1 THEN 2 ELSE 1]

\* C17: a destination whose fragment instance id has lo = -1 is skipped
\* silently by send, send_chunk and close in every partitioning mode: its
\* missing stub is never called, no RPC is issued to it and no attempt to
\* send to it returns an error.
C17_UnusedDestinationSkipped ==
    ds.phase # "none"
        => /\ ds.phase # "crashed"
           /\ \A k \in Chans :
                ds.ch[k].lo = -1 => ds.ch[k].log = <<>> /\ ds.ch[k].ret = "OK"

\* the bytes of the chunks of a list
RECURSIVE ChunkBytes(_)
ChunkBytes(chunks) ==
    IF chunks = <<>> THEN 0 ELSE Head(chunks).size + ChunkBytes(Tail(chunks))

\* what an operation of a vectorized sender that did not end the process
\* leaves on channel k: an RPC it issued has emptied the channel's request,
\* and an RPC without eos carries more bytes than the threshold
IssuedOverThreshold(k) ==
    /\ Len(ds'.ch[k].log) > Len(ds.ch[k].log)
         => /\ ds'.ch[k].current_request_bytes = 0
            /\ ds'.ch[k].chunks = <<>>
    /\ \A i \in (Len(ds.ch[k].log) + 1)..Len(ds'.ch[k].log) :
         ~ds'.ch[k].log[i].eos
            => ChunkBytes(ds'.ch[k].log[i].chunks) > request_bytes_threshold

SerializedOn(k) == Payload(ds.ch[k].log) \o ds.ch[k].chunks

\* the elements of a sequence
Elems(q) == {q[i] : i \in 1..Len(q)}

\* C19: on each channel, and on the request of the sender used for
\* broadcast, the first chunk serialized carries the column meta and no
\* later chunk does; the first chunk a receiver is sent on a channel is the
\* one with the meta.
C19_MetaOnFirstChunkOnly ==
    (ds.phase # "none" /\ sc.is_vectorized)
        => IF Broadcast(sc)
           THEN LET ids == FedIds(ds.fed, Len(ds.fed))
                IN /\ ds.is_first_chunk <=> ids = <<>>
                   /\ \A pb \in Elems(ds.chunks)
                                   \cup UNION {Elems(Payload(ds.ch[k].log)) : k \in Chans} :
                        pb.meta <=> pb.id = ids[1]
                   /\ \A k \in Chans :
                        Payload(ds.ch[k].log) # <<>> => Payload(ds.ch[k].log)[1].meta
           ELSE \A k \in Chans :
                   /\ ds.ch[k].is_first_chunk <=> SerializedOn(k) = <<>>
                   /\ \A i \in 1..Len(SerializedOn(k)) : SerializedOn(k)[i].meta <=> i = 1

\* a closed sender with two channels that serialized for each channel by
\* itself: one channel was sent two chunks, the other one chunk
C19_Witness ==
    /\ ds.phase = "closed" /\ sc.is_vectorized /\ ~Broadcast(sc)
    /\ \E k, j \in Chans :
         /\ k # j
         /\ Len(Payload(ds.ch[k].log)) = 2
         /\ Len(Payload(ds.ch[j].log)) = 1

\* C20: a chunk that serialize_chunk accepts goes out with the compress_type
\* of the codec and the compressed bytes exactly when uncompressed size /
\* compressed size is greater than the ratio threshold, and otherwise with
\* its uncompressed bytes and compress_type NO_COMPRESSION; in both cases
\* uncompressed_size is the size before compression.
C20_CompressedOnlyAboveRatio ==
    (fx.op = "serialize" /\ fx.done /\ fx.out.st = "OK")
        => LET pb    == fx.out.pb
               usize == SerializedBytes(fx.n)
           IN /\ pb.uncompressed_size = usize
              /\ IF fx.cx.codec /\ usize * fx.cx.ratio[2] > fx.cx.z * fx.cx.ratio[1]
                 THEN pb.compress_type = "LZ4" /\ pb.size = fx.cx.z
                 ELSE pb.compress_type = "NO_COMPRESSION" /\ pb.size = usize

\* a chunk whose ratio equals the threshold and went out uncompressed
C20_Witness ==
    /\ fx.op = "serialize" /\ fx.done /\ fx.out.st = "OK"
    /\ fx.cx.codec /\ fx.cx.ratio = <<2, 1>> /\ fx.n = 2 /\ fx.cx.z = 1
    /\ fx.out.pb.compress_type = "NO_COMPRESSION"

\* the rows added to a channel so far: those sent and those in its batch
RECURSIVE SentRows(_)
SentRows(log) == IF log = <<>> THEN 0 ELSE Head(log).n + SentRows(Tail(log))

RECURSIVE RowsAdded(_, _)
RowsAdded(d, ks) ==
    IF ks = {} THEN 0
    ELSE LET k == CHOOSE x \in ks : TRUE
         IN SentRows(d.ch[k].log) + d.ch[k].batch_rows + RowsAdded(d, ks \ {k})

\* the rows of a batch whose key falls in no partition
NotFound(rows) == {i \in 1..Len(rows) : rows[i] = 0}

\* C21: under RANGE_PARTITIONED a row whose key falls in no partition is
\* added to no channel; with ignore_not_found true or unset it is counted in
\* IgnoreRows, which always equals the number of rows skipped so far, and
\* with ignore_not_found false it makes send return an error.
C21_RangeRowsWithoutPartition ==
    [][(sc.part_type = "RANGE_PARTITIONED" /\ ds.phase = "open"
        /\ ds'.sends = ds.sends + 1)
          => /\ ds'.ignore_rows = ds'.skipped
             /\ RowsAdded(ds', Chans) - RowsAdded(ds, Chans)
                    <= Len(ds'.rows_in) - Cardinality(NotFound(ds'.rows_in))
             /\ (ignore_not_found(sc) /\ ds'.status = "OK")
                    => ds'.ignore_rows = ds.ignore_rows + Cardinality(NotFound(ds'.rows_in))
             /\ (~ignore_not_found(sc) /\ NotFound(ds'.rows_in) # {})
                    => ds'.status # "OK"]_vars

\* the drivers created for pipeline n, in the order of their creation
DriversOf(n) == SelectSeq(fx.drivers, LAMBDA d : d.pipeline = n)

\* the morsels of the scan source of pipeline n
MorselsOf(n) == fx.sources[fx.pipelines[n].plan_node_id]

Prepared == fx.op = "fragment" /\ fx.phase # "new"

\* C22: after prepare a source pipeline whose source has n morsels has
\* exactly n drivers, the i-th with morsel i; every morsel is bound to
\* exactly one driver and no driver of a source pipeline lacks a morsel.
C22_OneDriverPerMorsel ==
    Prepared =>
       /\ \A n \in 1..Len(fx.pipelines) :
             fx.pipelines[n].is_source =>
                /\ Len(DriversOf(n)) = Len(MorselsOf(n))
                /\ Len(MorselsOf(n)) = fx.scan_ranges[fx.pipelines[n].plan_node_id]
                /\ \A i \in 1..Len(MorselsOf(n)) :
                      /\ DriversOf(n)[i].morsel = MorselsOf(n)[i]
                      /\ Cardinality({k \in 1..Len(fx.drivers) :
                                         fx.drivers[k].morsel = MorselsOf(n)[i]}) = 1
       /\ \A k \in 1..Len(fx.drivers) :
             fx.pipelines[fx.drivers[k].pipeline].is_source
                 => fx.drivers[k].morsel # NoMorsel

C22_Witness ==
    /\ Prepared
    /\ \E n \in 1..Len(fx.pipelines) :
          fx.pipelines[n].is_source /\ Len(DriversOf(n)) = MaxMorsels

\* C23: after prepare num_root_drivers is the number of drivers created
\* with the root flag, these are the drivers of the last pipeline (as many
\* as the morsels of a source pipeline, as the driver instance count
\* otherwise), and the number is at least 1.
C23_RootDriversCounted ==
    Prepared =>
       LET last == Len(fx.pipelines)
           root == {k \in 1..Len(fx.drivers) : fx.drivers[k].is_root}
       IN /\ fx.num_root_drivers = Cardinality(root)
          /\ root = {k \in 1..Len(fx.drivers) : fx.drivers[k].pipeline = last}
          /\ fx.num_root_drivers =
                IF fx.pipelines[last].is_source
                THEN fx.scan_ranges[fx.pipelines[last].plan_node_id]
                ELSE fx.pipelines[last].driver_instance_count
          /\ fx.num_root_drivers >= 1

Events(kind, ok) ==
    {e \in 1..Len(fx.events) : fx.events[e][1] = kind /\ fx.events[e][3] = ok}

\* C24: execute dispatches a driver only after prepare has succeeded on every
\* driver; if a driver's prepare fails execute returns the error and no
\* driver is dispatched, otherwise every driver is dispatched exactly once.
C24_DispatchAfterAllPrepared ==
    (fx.op = "fragment" /\ fx.phase = "executed") =>
       /\ \A e \in Events("dispatch", TRUE) :
             \A k \in 1..Len(fx.drivers) :
                \E p \in Events("prepare", TRUE) : p < e /\ fx.events[p][2] = k
       /\ Events("prepare", FALSE) # {}
             => fx.status = "ERR" /\ Events("dispatch", TRUE) = {}
       /\ Events("prepare", FALSE) = {}
             => /\ fx.status = "OK"
                /\ \A k \in 1..Len(fx.drivers) :
                      Cardinality({e \in Events("dispatch", TRUE) : fx.events[e][2] = k}) = 1

C24_Witness ==
    /\ fx.op = "fragment" /\ fx.phase = "executed"
    /\ Len(fx.drivers) >= 2
    /\ Events("prepare", FALSE) = {}
    /\ Cardinality(Events("dispatch", TRUE)) = Len(fx.drivers)

C24_WitnessFailure ==
    /\ fx.op = "fragment" /\ fx.phase = "executed"
    /\ \E e \in Events("prepare", FALSE) : fx.events[e][2] >= 2

\* the non-null keys of a batch, as the variant stores them
BatchKeys(v, col) == {KeyOf(v, col.rows[i]) : i \in {j \in 1..Len(col.rows) : col.rows[j] # NULL}}

BatchHasNull(col) == \E i \in 1..Len(col.rows) : col.rows[i] = NULL

\* C25: the probe-only build_set does not insert: the keys of the set and
\* has_null_key are the same before and after the call, and not_found[i] is
\* 1 exactly for the rows whose key (NULL included) is absent from the set.
C25_ProbeDoesNotInsert ==
    [][(fx.op = "hash_set" /\ fx'.call = "probe" /\ fx' # fx) =>
          /\ fx'.hash_set = fx.hash_set
          /\ fx'.has_null_key = fx.has_null_key
          /\ Len(fx'.not_founds) = Len(fx'.col.rows)
          /\ \A i \in 1..Len(fx'.col.rows) :
                fx'.not_founds[i] = 1 <=>
                   IF fx'.col.rows[i] = NULL THEN ~fx.has_null_key
                   ELSE KeyOf(fx.variant, fx'.col.rows[i]) \notin fx.hash_set]_vars

\* C26: after the inserting build_set the set holds its previous keys plus
\* every key of the batch, and has_null_key is true iff it was true before
\* or the batch has a NULL key, whatever the shape of the key column.
C26_BuildInsertsEveryKey ==
    [][(fx.op = "hash_set" /\ fx'.call = "build" /\ fx' # fx) =>
          /\ fx'.hash_set = fx.hash_set \cup BatchKeys(fx.variant, fx'.col)
          /\ fx'.has_null_key = (fx.has_null_key \/ BatchHasNull(fx'.col))]_vars

\* the quadruples the constructor registers: each registration with either
\* value of the nullable flag
RegisteredKeys ==
    {<<Registrations[i][2], Registrations[i][3], Registrations[i][4], b>> :
        i \in 1..Len(Registrations), b \in BOOLEAN}

\* C27: get_aggregate_function returns nullptr for every quadruple that was
\* not registered and a function object for every registered one, nullable
\* or not; a lookup leaves the registry as the constructor filled it.
C27_LookupMatchesRegistry ==
    (fx.op = "registry") =>
       /\ DOMAIN fx.infos_mapping = RegisteredKeys
       /\ fx.returned =>
             /\ fx.key \in RegisteredKeys => fx.result # NoFunction
             /\ fx.key \notin RegisteredKeys => fx.result = NoFunction

C27_Witness ==
    /\ fx.op = "registry" /\ fx.returned
    /\ fx.key = <<"group_concat", "TYPE_VARCHAR", "TYPE_VARCHAR", TRUE>>
    /\ fx.result # NoFunction

C27_WitnessMiss ==
    /\ fx.op = "registry" /\ fx.returned
    /\ fx.key = <<"sum", "TYPE_VARCHAR", "TYPE_VARCHAR", FALSE>>
    /\ fx.result = NoFunction

IsOpen == fx.op = "open"

\* C28 as stated: a build in progress when the flag is set ends with
\* CANCELLED, unless its child fails first.
C28_BuildInProgressCancelled ==
    (IsOpen /\ fx.bpc = "done" /\ fx.cancelled_in_build /\ ~fx.build_err)
        => fx.status = "CANCELLED"

\* C28: with the flag set, a call of get_next returns CANCELLED and adds no
\* row; the build tests the flag before it fetches a batch: with the flag
\* set it returns CANCELLED there and inserts nothing, so after the flag is
\* set it inserts at most the batch it had fetched, and it ends with OK only
\* if that batch was the last.
C28_CancelledAtLoopTop ==
    /\ [][(IsOpen /\ fx.cancelled /\ fx'.calls = fx.calls + 1)
             => (fx'.get_next_ret = "CANCELLED" /\ fx'.out = fx.out)]_vars
    /\ [][(IsOpen /\ fx.cancelled /\ fx.bpc = "check" /\ fx'.bpc # fx.bpc)
             => (fx'.bpc = "deliver" /\ fx'.bret = "CANCELLED"
                 /\ fx'.inserted = fx.inserted /\ fx'.fetched = fx.fetched)]_vars
    /\ [](IsOpen => fx.inserted_after_cancel <= 1)
    /\ []((IsOpen /\ fx.bpc = "done" /\ fx.cancelled_in_build /\ fx.status = "OK")
             => (fx.inserted = fx.num_batches /\ fx.inserted_after_cancel = 1))

C28_Witness ==
    /\ IsOpen /\ fx.bpc = "done" /\ fx.cancelled_in_build
    /\ fx.status = "CANCELLED" /\ fx.inserted_after_cancel = 1

C28_WitnessGetNext ==
    IsOpen /\ fx.get_next_ret = "CANCELLED" /\ fx.out = 1

\* C29: once the build task runs on its own thread, open does not return,
\* with success or with an error, before the task has delivered its status,
\* and the task never writes its status after open has returned.
C29_OpenWaitsForBuild ==
    IsOpen =>
       /\ (fx.started /\ Returned(fx)) => (fx.bpc = "done" /\ fx.status # "unset")
       /\ ~fx.written_after_return

C29_Witness ==
    /\ IsOpen /\ fx.started /\ fx.pc = "failed" /\ ~fx.ret_from_build
    /\ fx.open_status = "ERR" /\ fx.status = "OK"

\* C30: when the build fails, open has called open on the probe child before
\* it returns the build error, with or without pushdown.
C30_ProbeOpenedBeforeBuildError ==
    (IsOpen /\ fx.pc = "failed" /\ fx.ret_from_build) => fx.probe_opened

PushDownRun == fx.op = "push_down" /\ fx.done

\* C31: when the probe child or the build child is an EXCHANGE node, open
\* builds no IN-predicate and does not call push_down_predicate.
C31_NoPushDownWithExchangeChild ==
    (PushDownRun /\ (fx.c.child0_exchange \/ fx.c.child1_exchange))
        => (fx.res.in_predicates = 0 /\ fx.res.push_down_calls = 0)

\* C32: when the hash table holds more than 1024 rows, open builds no
\* IN-predicate and pushes nothing down, whatever conjuncts the build child
\* carries.
C32_NoPushDownAboveMaxRows ==
    (PushDownRun /\ fx.size > PushDownMaxRows)
        => (fx.res.in_predicates = 0 /\ fx.res.push_down_calls = 0)

\* C33: when the build side is empty and the join is INNER, open marks the
\* join at eos without a get_next on the probe child, and the first get_next
\* of the join returns eos with no rows; hj is the node with push down
\* requested, hj2 the node without.
EmptyInnerSkipsProbe(n) ==
    (n.phase # "new" /\ jc.build = <<>> /\ jc.join_op = "INNER")
        => (n.eos /\ n.fetches = 0 /\ n.out = <<>> /\ (n.phase = "done" => n.reof))

C33_EmptyInnerBuildSkipsProbe == EmptyInnerSkipsProbe(hj) /\ EmptyInnerSkipsProbe(hj2)

\* the build rows on which set_matched was invoked, each exactly once
MarkedOnce(n) ==
    /\ \A i, j \in 1..Len(n.set_matched_calls) :
         n.set_matched_calls[i] = n.set_matched_calls[j] => i = j
    /\ n.matched = {n.set_matched_calls[i] : i \in 1..Len(n.set_matched_calls)}

\* the build rows in the committed output rows, in the order of emission
EmittedBuildRows(n) == [i \in 1..Len(n.out) |-> n.out[i][2]]

\* C34: the matched bits are clear when open returns, set_matched is invoked
\* at most once per build row (no conjunct is evaluated on a row already
\* matched), no bit is ever cleared, and a RIGHT_SEMI join emits each build
\* row at most once.
C34_MatchedBitMonotonic ==
    /\ [](MarkedOnce(hj) /\ ~hj.conj_on_matched)
    /\ [](jc.join_op = "RIGHT_SEMI" =>
            \A i, j \in 1..Len(hj.out) :
                EmittedBuildRows(hj)[i] = EmittedBuildRows(hj)[j] => i = j)
    /\ [][(hj.phase = "new" => hj'.matched = {}) /\ hj.matched \subseteq hj'.matched]_vars

\* a RIGHT_SEMI join is done, and a build row that was marked met a second
\* probe row that passes the join conjuncts
C34_Witness ==
    /\ hj.phase = "done" /\ jc.join_op = "RIGHT_SEMI"
    /\ \E b \in hj.matched :
         /\ Cardinality({p \in 1..Len(jc.probe) :
                           KeyEq(jc, jc.probe[p].k, jc.build[b].k) /\ OtherPass(jc, p, b)}) >= 2
         /\ \E i \in 1..Len(hj.out) : hj.out[i][2] = b

\* C35: the calling thread reads the hash table (size, begin, find) only
\* after the build status has been received: no read happens while the
\* build task may still insert.
C35_NoReadDuringBuild ==
    IsOpen =>
        /\ ~fx.read_during_build
        /\ fx.table_read => (fx.bpc = "done" /\ fx.status # "unset")

\* the build ran on its own thread, open read the table and so did get_next
C35_Witness ==
    IsOpen /\ fx.async /\ fx.inserted > 0 /\ fx.table_read /\ fx.pc = "opened" /\ fx.calls > 0

IsSliceSet == fx.op = "slice_set"

\* the keys of a batch that an inserting call hands to lazy_emplace
SliceBatchKeys(h, col) ==
    IF h.variant = "OneNullableStringKey" /\ col.shape # "nullable" THEN {}
    ELSE {col.rows[i] : i \in 1..Len(col.rows)} \ {NullBytes}

StoredBytes(h) == {e.bytes : e \in h.hash_set}

\* C36: key bytes are copied into the arena exactly once per distinct key, on
\* the insertion that first adds it; a key already present and a probe-only
\* call copy nothing; every stored key points into the arena at a copy of its
\* bytes and carries the hash of its bytes.
C36_KeyCopiedOncePerDistinctKey ==
    /\ [](IsSliceSet =>
            /\ \A e \in fx.hash_set :
                 /\ e.area = "arena" /\ e.at \in 1..Len(fx.arena)
                 /\ fx.arena[e.at] = e.bytes
                 /\ e.hash = SliceHashWithSeed(e.bytes)
            /\ \A i, j \in 1..Len(fx.arena) : fx.arena[i] = fx.arena[j] => i = j
            /\ Len(fx.arena) = Cardinality(StoredBytes(fx)))
    /\ [][IsSliceSet =>
            /\ fx'.call = "probe" => fx'.arena = fx.arena /\ fx'.hash_set = fx.hash_set
            /\ fx'.call = "build" =>
                 /\ Len(fx'.arena) = Len(fx.arena)
                       + Cardinality(SliceBatchKeys(fx, fx'.col) \ StoredBytes(fx))
                 /\ SubSeq(fx'.arena, 1, Len(fx.arena)) = fx.arena]_vars

\* an inserting call met a key already stored and a key not yet stored, and
\* two keys with the same hash are stored
C36_Witness ==
    /\ IsSliceSet /\ fx.call = "build"
    /\ Cardinality(StoredBytes(fx)) = 3
    /\ Len(fx.col.rows) = 2 /\ fx.col.rows[1] = fx.col.rows[2]
    /\ fx.arena[3] = fx.col.rows[1]

\* C37: the scratch buffer of the serialized-key set is at all times at least
\* max_one_row_size x chunk capacity + SLICE_MEMEQUAL_OVERFLOW_PADDING bytes.
C37_BufferKeepsPadding ==
    (IsSliceSet /\ fx.variant = "SerializedKey")
        => fx.buffer >= fx.max_one_row_size * vector_chunk_size + fx.padding

\* C38: after insert_keys_to_columns on a nullable one-key set the null
\* bitmap of the output column has as many entries as its data column and
\* marks the appended keys non-null, also when the column held rows before.
C38_NullBitmapMatchesData ==
    (fx.op = "insert_keys" /\ fx.done) =>
        /\ Len(fx.out.nulls) = Len(fx.out.data)
        /\ \A j \in (Len(fx.before.data) + 1)..Len(fx.out.data) :
             j <= Len(fx.out.nulls) /\ fx.out.nulls[j] = 0

\* a ChunkPB left behind by a serialize_chunk that returned the InternalError:
\* its bytes are written and its uncompressed_size is not
RejectedPB(pb) == pb.uncompressed_size = 0 /\ pb.size > 0

\* C39: a chunk that serialize_chunk rejected for its size is carried by no
\* RPC of the channel, the eos frame of close included.
C39_RejectedChunkNeverSent ==
    ds.phase # "none" =>
        \A k \in DOMAIN ds.ch :
            \A i \in 1..Len(ds.ch[k].log) :
                \A j \in 1..Len(ds.ch[k].log[i].chunks) :
                    ~RejectedPB(ds.ch[k].log[i].chunks[j])

\* C40: with a row limit L >= 0 the rows committed over all get_next calls
\* never exceed L, and once L rows were returned every later get_next
\* returns eos and adds no row.
C40_LimitNeverExceeded ==
    /\ [](fx.op = "limit" => (hj.returned <= jc.limit /\ Len(hj.out) <= jc.limit))
    /\ [][(fx.op = "limit" /\ hj.phase # "new" /\ reached_limit(jc, hj))
             => (hj'.out = hj.out /\ hj'.returned = hj.returned /\ hj'.reof)]_vars

\* the limit was reached in the final scan of the unmatched build rows while
\* the scan had more rows to visit, and get_next was called again
C40_Witness ==
    /\ fx.op = "limit" /\ fx.after_limit > 0
    /\ jc.join_op \in {"RIGHT_OUTER", "FULL_OUTER", "RIGHT_ANTI"}
    /\ jc.limit >= 1 /\ hj.returned = jc.limit
    /\ hj.out[Len(hj.out)][1] = 0
    /\ Len(hj.iter) >= 2

\* the limit was reached on the fast path with probe rows left
C40_WitnessFastPath ==
    /\ fx.op = "limit" /\ fx.after_limit > 0
    /\ FastPath(jc) /\ jc.limit >= 1 /\ hj.returned = jc.limit
    /\ (hj.pos < Len(hj.probe_batch) \/ hj.child_rest # <<>>)

\* the limit was reached in the probe loop of the general path
C40_WitnessProbeLoop ==
    /\ fx.op = "limit" /\ fx.after_limit > 0
    /\ ~FastPath(jc) /\ jc.limit >= 1 /\ hj.returned = jc.limit
    /\ ~hj.eos /\ hj.out[Len(hj.out)][1] # 0

====
